---- MODULE Spec2Model ----
(***************************************************************************)
(* Model of the legodns zone container (package dnszone): the zones, the   *)
(* reader/writer mutex, the coalescing window of serial changes and the    *)
(* goroutines that call the container.                                     *)
(*                                                                         *)
(* Strings that the code inspects character by character (domain names,    *)
(* host names, node names) are sequences of one-character strings:         *)
(* "w.a." is <<"w", ".", "a", ".">>.                                       *)
(***************************************************************************)
EXTENDS Integers, Sequences, FiniteSets, TLC

\* ------------------------------------------------------------------ bounds

\* WriteSpec: the goroutines calling ModifyRecord and the calls they make.
NumWriters == 2
MaxCalls == 3

\* Spec: the same with goroutines that read.
NumReaders == 1
MaxReads == 2
MaxCallsRead == 2

\* HeapSpec: the reads whose results a caller keeps and mutates, and the
\* arrays allocated.
MaxCopies == 2
MaxHeap == 9

\* HandlerSpec: the answers of a reply at which building it may panic.
MaxAnswers == 6

\* AcmeSpec: the challenges of an authorization.
MaxChallenges == 2

\* MatchSpec: the length of the names given to matchResource.
MaxNameLen == 6

\* ClockSpec: the seconds around the serial epoch, and around the time at
\* which the serial no longer fits 32 bits, at which Init reads the clock.
MaxSkew == 30

Writers == 1..NumWriters
Readers == 1..NumReaders

\* ------------------------------------------------------- program constants

\* A uint32 is the pair <<hi, lo>> of its 16-bit halves, hi * 65536 + lo
\* (TLC's integers are 32-bit signed).
Half == 65536

Zero32 == <<0, 0>>
One32 == <<0, 1>>
MaxUint32 == <<Half - 1, Half - 1>>

Lt32(a, b) == a[1] < b[1] \/ (a[1] = b[1] /\ a[2] < b[2])
Le32(a, b) == a = b \/ Lt32(a, b)

\* The integer s + n, n a small natural, without wrap-around: its high half
\* is Half when the sum is 2^32 or more.
Plus(s, n) == <<s[1] + ((s[2] + n) \div Half), (s[2] + n) % Half>>

\* No serial: below every uint32.
None32 == <<-1, 0>>

TypeA == 1
TypeNS == 2
TypeTXT == 16
TypeAAAA == 28

Apex == <<"@">>
Wildcard == <<"*">>

\* A nil slice, a nil map entry, the empty string.
Nil == <<>>

\* ------------------------------------------------------------ the zones

\* The zones handed to InitWithSerial, in container order: "a." and "b.a.".
ZoneDomains == << <<"a", ".">>, <<"b", ".", "a", ".">> >>

ZoneIds == 1..Len(ZoneDomains)

\* Zone.Nodes of each zone before the container is used: zone "a." has an
\* apex with an A record, zone "b.a." has a nil node map.
RecA == [type |-> TypeA, value |-> <<93, 184>>, ttl |-> 1]

InitialNodes == << [n \in {Apex} |-> <<RecA>>], <<>> >>

\* InitWithSerial takes any uint32.
InitSerials == {Zero32, One32, MaxUint32}

\* ------------------------------------------------------ inputs of the calls

\* Zone names passed to ModifyRecord and TransferZone; "c." is no zone.
UnknownDomain == <<"c", ".">>

TXT(values) == [type |-> TypeTXT, value |-> values, ttl |-> 1]

NodeW == <<"w">>

\* The arguments of ModifyTXTRecord calls: a value and the empty record
\* (removal) on node "w" of the first zone, a value on the second zone and
\* on no zone.
ModifyInputs ==
    {[zoneName |-> ZoneDomains[1], node |-> NodeW, r |-> TXT(<<"x">>)],
     [zoneName |-> ZoneDomains[1], node |-> NodeW, r |-> TXT(<<>>)],
     [zoneName |-> ZoneDomains[2], node |-> NodeW, r |-> TXT(<<"x">>)],
     [zoneName |-> UnknownDomain, node |-> NodeW, r |-> TXT(<<"x">>)]}

HostW == <<"w", ".", "a", ".">>

\* The arguments of the read calls.
ReadInputs ==
    {[op |-> "ResolveResource", name |-> HostW],
     [op |-> "ResolveResource", name |-> UnknownDomain],
     [op |-> "TransferZone", name |-> ZoneDomains[1]],
     [op |-> "TransferZone", name |-> UnknownDomain],
     [op |-> "ResolveZone", name |-> HostW]}

\* --------------------------------------------------------------- strings

HasSuffix(s, suffix) ==
    /\ Len(s) >= Len(suffix)
    /\ SubSeq(s, Len(s) - Len(suffix) + 1, Len(s)) = suffix

Contains(s, c) == \E i \in 1..Len(s) : s[i] = c

\* ---------------------------------------------------------------- records

Empty(r) == Len(r.value) = 0

RecordDeepCopy(r) == [type |-> r.type, value |-> [i \in 1..Len(r.value) |-> r.value[i]], ttl |-> r.ttl]

DeepCopy(rs) == [i \in 1..Len(rs) |-> RecordDeepCopy(rs[i])]

\* ------------------------------------------------------------------ Zone

\* z.Nodes[node]: nil when the map has no such key.
Get(nodes, node) == IF node \in DOMAIN nodes THEN nodes[node] ELSE Nil

\* Variant: any prefix is taken for a node, dots included.
matchResourceDeep(domain, name) ==
    IF domain = name
    THEN [node |-> Apex, ok |-> TRUE]
    ELSE IF HasSuffix(name, <<".">> \o domain)
         THEN [node |-> SubSeq(name, 1, Len(name) - 1 - Len(domain)), ok |-> TRUE]
         ELSE [node |-> Nil, ok |-> FALSE]

matchResource(domain, name) ==
    IF domain = name
    THEN [node |-> Apex, ok |-> TRUE]
    ELSE IF HasSuffix(name, <<".">> \o domain)
         THEN LET prefix == SubSeq(name, 1, Len(name) - 1 - Len(domain))
              IN  IF ~Contains(prefix, ".")
                  THEN [node |-> prefix, ok |-> TRUE]
                  ELSE [node |-> Nil, ok |-> FALSE]
         ELSE [node |-> Nil, ok |-> FALSE]

\* Variant: the wildcard applies to the apex too.
resolveNodeAnyWildcard(nodes, node) ==
    LET rs == Get(nodes, node)
    IN  IF rs = Nil THEN Get(nodes, Wildcard) ELSE rs

resolveNode(nodes, node) ==
    LET rs == Get(nodes, node)
    IN  IF rs = Nil /\ node # Apex THEN Get(nodes, Wildcard) ELSE rs

\* The index of the first record of rs with type t, 0 when there is none.
FirstOfType(rs, t) ==
    IF \E i \in 1..Len(rs) : rs[i].type = t
    THEN CHOOSE i \in 1..Len(rs) :
            /\ rs[i].type = t
            /\ \A j \in 1..(i - 1) : rs[j].type # t
    ELSE 0

Put(nodes, node, rs) == [n \in DOMAIN nodes \cup {node} |-> IF n = node THEN rs ELSE nodes[n]]

Delete(nodes, node) == [n \in DOMAIN nodes \ {node} |-> nodes[n]]

RemoveAt(rs, i) == SubSeq(rs, 1, i - 1) \o SubSeq(rs, i + 1, Len(rs))

\* Variant: a node whose last record is removed stays in the map.
modifyRecordKeepsNode(nodes, node, r) ==
    LET rs == Get(nodes, node)
        i == FirstOfType(rs, r.type)
    IN  IF ~Empty(r)
        THEN IF i # 0
             THEN Put(nodes, node, [rs EXCEPT ![i] = r])
             ELSE Put(nodes, node, Append(rs, r))
        ELSE IF i # 0
             THEN Put(nodes, node, RemoveAt(rs, i))
             ELSE nodes

\* Variant: a non-empty record is appended without looking for its type.
modifyRecordAppends(nodes, node, r) ==
    LET rs == Get(nodes, node)
        i == FirstOfType(rs, r.type)
    IN  IF ~Empty(r)
        THEN Put(nodes, node, Append(rs, r))
        ELSE IF i # 0
             THEN IF Len(RemoveAt(rs, i)) > 0
                  THEN Put(nodes, node, RemoveAt(rs, i))
                  ELSE Delete(nodes, node)
             ELSE nodes

modifyRecord(nodes, node, r) ==
    LET rs == Get(nodes, node)
        i == FirstOfType(rs, r.type)
    IN  IF ~Empty(r)
        THEN IF i # 0
             THEN Put(nodes, node, [rs EXCEPT ![i] = r])
             ELSE Put(nodes, node, Append(rs, r))
        ELSE IF i # 0
             THEN IF Len(RemoveAt(rs, i)) > 0
                  THEN Put(nodes, node, RemoveAt(rs, i))
                  ELSE Delete(nodes, node)
             ELSE nodes

\* Zone.transfer: the apex first, the other nodes in the order the map
\* iteration yields them (any order), the wildcard last.
Orderings(S) ==
    {o \in [1..Cardinality(S) -> S] : \A i, j \in 1..Cardinality(S) : i # j => o[i] # o[j]}

TransferNode(nodes, name) == [name |-> name, records |-> DeepCopy(nodes[name])]

\* Variant: the loop over the map skips only the apex.
transferAll(nodes) ==
    LET first == IF Get(nodes, Apex) # Nil THEN <<TransferNode(nodes, Apex)>> ELSE <<>>
        last == IF Get(nodes, Wildcard) # Nil THEN <<TransferNode(nodes, Wildcard)>> ELSE <<>>
        others == DOMAIN nodes \ {Apex}
    IN  {first \o [i \in 1..Cardinality(others) |-> TransferNode(nodes, o[i])] \o last :
            o \in Orderings(others)}

transfer(nodes) ==
    LET first == IF Get(nodes, Apex) # Nil THEN <<TransferNode(nodes, Apex)>> ELSE <<>>
        last == IF Get(nodes, Wildcard) # Nil THEN <<TransferNode(nodes, Wildcard)>> ELSE <<>>
        others == DOMAIN nodes \ {Apex, Wildcard}
    IN  {first \o [i \in 1..Cardinality(others) |-> TransferNode(nodes, o[i])] \o last :
            o \in Orderings(others)}

\* ------------------------------------------------------------- Container

VARIABLES
    Nodes,        \* Nodes[z]: Zone.Nodes of zone z, node name -> Records
    serial,       \* serial[z]: Zone.serial, a uint32
    mutexW,       \* Container.mutex is write-locked
    mutexR,       \* number of read locks held on Container.mutex
    changeReady,  \* Container.changeReady: a channel (1..chans), 0 is nil
    changeZones,  \* Container.changeZones: [nil, set]
    chans,        \* number of channels made so far
    closed,       \* the closed channels
    timers,       \* time.AfterFunc timers that have not expired
    applyWait,    \* applyChanges goroutines blocked in mutex.Lock
    applyIn,      \* applyChanges goroutines holding the mutex
    panicked,     \* the process died of a panic
    wpc,          \* wpc[w]: where writer w is in ModifyRecord
    wargs,        \* wargs[w]: the arguments of w's call in progress
    wready,       \* wready[w]: the channel scheduleChange returned to w
    ctxDone,      \* ctxDone[w]: the context of w's call is cancelled
    wret,         \* wret[w]: what w's last call returned
    rpc,          \* rpc[r]: where reader r is in its call
    rargs,        \* rargs[r]: the arguments of r's call in progress
    rres,         \* rres[r]: what r's last call returned
    calls,        \* ModifyRecord calls made
    reads,        \* read calls made
    \* history, for stating the properties
    serial0,      \* the serial given to InitWithSerial
    hTouched,     \* zones whose modifyRecord ran since the last applyChanges
    hApplied,     \* hApplied[z]: applyChanges runs that followed a modifyRecord of z
    hLast,        \* hLast[z]: the arguments of the last modifyRecord on zone z
    wmod,         \* wmod[w]: serial and hApplied of the target when w's call modified it
    hRet,         \* hRet[z]: the last call on zone z that returned nil
    hReadMax,     \* hReadMax[z]: highest serial a completed read of z observed
    rafter,       \* rafter[r]: hRet when r's call began
    \* the DNS server
    soa,          \* Config.SOA of the running server, after SOA.init
    questMsg,     \* the last message handle was called with
    replyMsg,     \* the reply handle wrote for it
    hCalls,       \* the resolver calls of the last request, with their results
    \* memory: the slices behind the records of the first zone and behind a result
    heap,         \* heap[a]: the backing array at address a
    store,        \* store[node]: address of the array behind z.Nodes[node]
    got,          \* the nodes a caller holds from its last read, by address
    copies,       \* reads made by that caller
    \* one run of handle, step by step
    hpc,          \* where handle is
    hres,         \* what the resolver returned to it
    hreply,       \* replyMsg and replyCode as built so far
    hpanic,       \* a panic is unwinding handle
    hpanicked,    \* handle has panicked in this run
    escaped,      \* a panic left handle
    wlog,         \* what was done to the ResponseWriter, in order
    \* one call of Serve, its goroutines and its sockets
    scfg,         \* the Config given to Serve
    spc,          \* where Serve is
    sret,         \* the error Serve returned
    parentDone,   \* the context given to Serve is cancelled
    sctxDone,     \* the context Serve derived from it is cancelled
    sock,         \* sock[l]: the socket of listener l
    watch,        \* watch[l]: the goroutine that waits for ctx.Done()
    lserve,       \* lserve[l]: the goroutine that runs ActivateAndServe
    errors,       \* the errors channel
    readyClosed,  \* close(config.Ready) calls
    unhealthy,    \* a bind or a listener has failed on its own
    \* one call of Verify
    authz,        \* the authorization client.Authorize returned
    apc,          \* where Verify is
    combos,       \* acquireAuthorization: combos
    acombo,       \* the position of its loop in combos
    aerr,         \* its err ("" is nil)
    accepted,     \* its accepted: 0 is nil, else the challenge accepted
    adefers,      \* its deferred ForgetTXTRecord calls
    aret,         \* what Verify returned
    alog,         \* the calls made on the ACME client and on the DNS, in order
    \* the construction of the container, a call of matchResource, the manager
    clock,        \* the time Init read
    matched,      \* the last call of Zone.matchResource and its result
    mgr           \* the certificate manager: its call in progress

cvars == <<Nodes, serial, mutexW, mutexR, changeReady, changeZones, chans, closed,
           timers, applyWait, applyIn, panicked>>
wvars == <<wpc, wargs, wready, ctxDone, wret, calls>>
rvars == <<rpc, rargs, rres, reads>>
hvars == <<serial0, hTouched, hApplied, hLast, wmod, hRet, hReadMax, rafter>>
svars == <<soa, questMsg, replyMsg, hCalls>>
mvars == <<heap, store, got, copies>>
pvars == <<hpc, hres, hreply, hpanic, hpanicked, escaped, wlog>>
\* the variables of the server's surroundings
lvars == <<scfg, spc, sret, parentDone, sctxDone, sock, watch, lserve, errors,
           readyClosed, unhealthy>>
avars == <<authz, apc, combos, acombo, aerr, accepted, adefers, aret, alog>>
nvars == <<clock, matched, mgr>>
xvars == <<pvars, lvars, avars, nvars>>
\* the variables other than those of Serve, and other than those of Verify
restL == <<cvars, wvars, rvars, hvars, svars, mvars, pvars, avars, nvars>>
restA == <<cvars, wvars, rvars, hvars, svars, mvars, pvars, lvars, nvars>>
\* the variables outside the container
ovars == <<svars, mvars, xvars>>
vars == <<cvars, wvars, rvars, hvars, ovars>>

NilMap == [nil |-> TRUE, set |-> {}]

NoArgs == [zoneName |-> Nil, node |-> Nil, r |-> TXT(<<>>)]
NoRead == [op |-> "none", name |-> Nil]
NoResult == [op |-> "none", name |-> Nil, zone |-> 0, node |-> Nil, records |-> Nil,
             nodes |-> <<>>, serial |-> Zero32, domain |-> Nil, err |-> "", incs |-> 0]
NoMod == [serial |-> Zero32, incs |-> 0]
\* returned: a call on the zone has returned nil; args: its arguments; mod:
\* its wmod; at, seen: the zone's serial and hReadMax when it returned.
NoRet == [returned |-> FALSE, args |-> NoArgs, mod |-> NoMod, at |-> Zero32, seen |-> None32]

\* Config.SOA before Serve has run; no request handled yet.
NotServing == [serving |-> FALSE, NS |-> Nil, Mbox |-> Nil, Refresh |-> 0, Retry |-> 0,
               Expire |-> 0, TTL |-> 0]
NoMsg == [Question |-> <<>>, handled |-> FALSE]
NoReply == [Rcode |-> "", Authoritative |-> FALSE, Answer |-> <<>>, Ns |-> <<>>]

\* The two listeners of Serve, and the Config before Serve is called.
Listeners == {"tcp", "udp"}
NoConfig == [SOA |-> NotServing, NoTCP |-> FALSE, NoUDP |-> FALSE, Ready |-> FALSE]
\* No authorization has been fetched.
NoAuthz == [Status |-> "", Challenges |-> <<>>, Combinations |-> <<>>]
\* Init has not read the time; matchResource has not been called; the
\* manager has not been asked for a certificate.
NoClock == [called |-> FALSE, base |-> "", skew |-> 0]
NoMatch == [called |-> FALSE, domain |-> Nil, name |-> Nil, node |-> Nil, ok |-> FALSE]
NoManager == [pc |-> "idle", host |-> Nil, policy |-> "none", zone |-> Nil, err |-> "none",
              ret |-> "none"]
\* The resolver has not been called.
NoResolve == [nodes |-> <<>>, nil |-> TRUE, serial |-> Zero32, hasApex |-> FALSE, calls |-> <<>>]
\* The arrays behind InitialNodes[1]: the bytes of the A record's Value and
\* the Records slice of the apex.  Address 0 is nil.
InitialHeap == <<RecA.value, <<[type |-> TypeA, value |-> 1, ttl |-> RecA.ttl]>> >>
InitialStore == [n \in {Apex} |-> 2]

\* InitWithSerial(serial, zones...)
InitWithSerial(s) ==
    /\ Nodes = InitialNodes
    /\ serial = [z \in ZoneIds |-> s]
    /\ mutexW = FALSE
    /\ mutexR = 0
    /\ changeReady = 0
    /\ changeZones = NilMap
    /\ chans = 0
    /\ closed = {}
    /\ timers = 0
    /\ applyWait = 0
    /\ applyIn = 0
    /\ panicked = FALSE

Init ==
    /\ \E s \in InitSerials : InitWithSerial(s) /\ serial0 = s
    /\ wpc = [w \in Writers |-> "idle"]
    /\ wargs = [w \in Writers |-> NoArgs]
    /\ wready = [w \in Writers |-> 0]
    /\ ctxDone = [w \in Writers |-> FALSE]
    /\ wret = [w \in Writers |-> "none"]
    /\ calls = 0
    /\ rpc = [r \in Readers |-> "idle"]
    /\ rargs = [r \in Readers |-> NoRead]
    /\ rres = [r \in Readers |-> NoResult]
    /\ reads = 0
    /\ hTouched = {}
    /\ hApplied = [z \in ZoneIds |-> 0]
    /\ hLast = [z \in ZoneIds |-> NoArgs]
    /\ wmod = [w \in Writers |-> NoMod]
    /\ hRet = [z \in ZoneIds |-> NoRet]
    /\ hReadMax = [z \in ZoneIds |-> None32]
    /\ rafter = [r \in Readers |-> [z \in ZoneIds |-> NoRet]]
    /\ soa = NotServing
    /\ questMsg = NoMsg
    /\ replyMsg = NoReply
    /\ hCalls = <<>>
    /\ heap = InitialHeap
    /\ store = InitialStore
    /\ got = <<>>
    /\ copies = 0
    /\ hpc = "idle"
    /\ hres = NoResolve
    /\ hreply = NoReply
    /\ hpanic = FALSE
    /\ hpanicked = FALSE
    /\ escaped = FALSE
    /\ wlog = <<>>
    /\ scfg = NoConfig
    /\ spc = "idle"
    /\ sret = "none"
    /\ parentDone = FALSE
    /\ sctxDone = FALSE
    /\ sock = [l \in Listeners |-> "none"]
    /\ watch = [l \in Listeners |-> "none"]
    /\ lserve = [l \in Listeners |-> "none"]
    /\ errors = <<>>
    /\ readyClosed = 0
    /\ unhealthy = FALSE
    /\ authz = NoAuthz
    /\ apc = "idle"
    /\ combos = <<>>
    /\ acombo = 0
    /\ aerr = ""
    /\ accepted = 0
    /\ adefers = 0
    /\ aret = "none"
    /\ alog = <<>>
    /\ clock = NoClock
    /\ matched = NoMatch
    /\ mgr = NoManager

\* The first zone of c.zones with z.Domain == name, 0 (nil) when there is none.
FindZone(name) ==
    IF \E z \in ZoneIds : ZoneDomains[z] = name
    THEN CHOOSE z \in ZoneIds :
            /\ ZoneDomains[z] = name
            /\ \A y \in 1..(z - 1) : ZoneDomains[y] # name
    ELSE 0

\* Variant: the loop goes on after a match, the last matching zone wins.
FirstMatchLast(name) ==
    IF \E z \in ZoneIds : matchResource(ZoneDomains[z], name).ok
    THEN CHOOSE z \in ZoneIds :
            /\ matchResource(ZoneDomains[z], name).ok
            /\ \A y \in (z + 1)..Len(ZoneDomains) : ~matchResource(ZoneDomains[y], name).ok
    ELSE 0

\* The first zone of c.zones whose matchResource accepts name, 0 when none does.
FirstMatch(name) ==
    IF \E z \in ZoneIds : matchResource(ZoneDomains[z], name).ok
    THEN CHOOSE z \in ZoneIds :
            /\ matchResource(ZoneDomains[z], name).ok
            /\ \A y \in 1..(z - 1) : ~matchResource(ZoneDomains[y], name).ok
    ELSE 0

\* Variant: Lock() does not wait for the readers.
CanLockDespiteReaders == ~mutexW

\* c.mutex.Lock() can succeed; c.mutex.RLock() can succeed.
CanLock == ~mutexW /\ mutexR = 0

CanRLock == ~mutexW

\* Variant: every call arms a timer, also within a window.
scheduleChangeRearms(z) ==
    IF changeReady = 0
    THEN [changeReady |-> chans + 1, changeZones |-> [nil |-> FALSE, set |-> {z}],
          chans |-> chans + 1, timers |-> timers + 1, panicked |-> FALSE]
    ELSE [changeReady |-> changeReady,
          changeZones |-> [nil |-> FALSE, set |-> changeZones.set \cup {z}],
          chans |-> chans, timers |-> timers + 1, panicked |-> FALSE]

\* c.changeReady, c.changeZones and the timers after scheduleChange(z),
\* which is called with the write lock held and returns the new
\* c.changeReady; an insert into a nil map panics.
scheduleChange(z) ==
    IF changeReady = 0
    THEN [changeReady |-> chans + 1, changeZones |-> [nil |-> FALSE, set |-> {z}],
          chans |-> chans + 1, timers |-> timers + 1, panicked |-> FALSE]
    ELSE IF changeZones.nil
         THEN [changeReady |-> changeReady, changeZones |-> changeZones,
               chans |-> chans, timers |-> timers, panicked |-> TRUE]
         ELSE [changeReady |-> changeReady,
               changeZones |-> [nil |-> FALSE, set |-> changeZones.set \cup {z}],
               chans |-> chans, timers |-> timers, panicked |-> FALSE]

\* z.serial++ on a uint32
IncSerial(s) ==
    IF s[2] < Half - 1 THEN <<s[1], s[2] + 1>>
    ELSE IF s[1] < Half - 1 THEN <<s[1] + 1, 0>>
    ELSE Zero32

\* ModifyRecord is entered: the goroutine blocks in c.mutex.Lock().
CallModifyRecord(w, args) ==
    /\ ~panicked
    /\ wpc[w] = "idle"
    /\ calls < MaxCalls
    /\ calls' = calls + 1
    /\ wpc' = [wpc EXCEPT ![w] = "lock"]
    /\ wargs' = [wargs EXCEPT ![w] = args]
    /\ wret' = [wret EXCEPT ![w] = "none"]
    /\ UNCHANGED ovars
    /\ UNCHANGED <<cvars, wready, ctxDone, rvars, hvars>>

\* c.mutex.Lock() of ModifyRecord succeeds.
ModifyRecordLock(w) ==
    /\ ~panicked
    /\ wpc[w] = "lock"
    /\ CanLock
    /\ mutexW' = TRUE
    /\ wpc' = [wpc EXCEPT ![w] = "locked"]
    /\ UNCHANGED ovars
    /\ UNCHANGED <<Nodes, serial, mutexR, changeReady, changeZones, chans, closed, timers,
                   applyWait, applyIn, panicked, wargs, wready, ctxDone, wret, calls,
                   rvars, hvars>>

\* Variant: the loop leaves the last zone in targetZone when none matches.
TargetZoneLast(zoneName) == IF FindZone(zoneName) # 0 THEN FindZone(zoneName) ELSE Len(ZoneDomains)

\* The zone ModifyRecord's loop selects for zoneName, 0 for targetZone == nil.
TargetZone(zoneName) == FindZone(zoneName)

\* ModifyRecord from the lock to the unlock: the lookup, then modifyRecord
\* and scheduleChange, or the not-exist return.  A panic leaves the mutex locked.
ModifyRecordLocked(w) ==
    /\ ~panicked
    /\ wpc[w] = "locked"
    /\ LET target == TargetZone(wargs[w].zoneName)
           sc == scheduleChange(target)
       IN  IF target # 0
           THEN /\ Nodes' = [Nodes EXCEPT ![target] = modifyRecord(@, wargs[w].node, wargs[w].r)]
                /\ changeReady' = sc.changeReady
                /\ changeZones' = sc.changeZones
                /\ chans' = sc.chans
                /\ timers' = sc.timers
                /\ panicked' = sc.panicked
                /\ mutexW' = sc.panicked
                /\ wready' = [wready EXCEPT ![w] = sc.changeReady]
                /\ wpc' = [wpc EXCEPT ![w] = "select"]
                /\ UNCHANGED <<wret, wargs>>
                /\ hTouched' = hTouched \cup {target}
                /\ hLast' = [hLast EXCEPT ![target] = wargs[w]]
                /\ wmod' = [wmod EXCEPT ![w] = [serial |-> serial[target], incs |-> hApplied[target]]]
           ELSE /\ mutexW' = FALSE
                /\ wpc' = [wpc EXCEPT ![w] = "idle"]
                /\ wret' = [wret EXCEPT ![w] = "notExist"]
                /\ wargs' = [wargs EXCEPT ![w] = NoArgs]
                /\ UNCHANGED <<Nodes, changeReady, changeZones, chans, timers, panicked,
                               wready, hTouched, hLast, wmod>>
    /\ UNCHANGED ovars
    /\ UNCHANGED <<serial, mutexR, closed, applyWait, applyIn, ctxDone, calls,
                   rvars, serial0, hApplied, hRet, hReadMax, rafter>>

\* The cases of ModifyRecord's select that can be taken: <-ready when the
\* channel is closed, <-ctx.Done() when the context is cancelled.
\* Variant: the select does not wait for the channel.
ReadyCaseUnblocked(w) == TRUE

ReadyCase(w) == wready[w] \in closed

DoneCase(w) == ctxDone[w]

\* The select of ModifyRecord takes the case <-ready: return nil.
SelectReady(w) ==
    /\ ~panicked
    /\ wpc[w] = "select"
    /\ ReadyCase(w)
    /\ wpc' = [wpc EXCEPT ![w] = "idle"]
    /\ wret' = [wret EXCEPT ![w] = "nil"]
    /\ wargs' = [wargs EXCEPT ![w] = NoArgs]
    /\ wready' = [wready EXCEPT ![w] = 0]
    /\ ctxDone' = [ctxDone EXCEPT ![w] = FALSE]
    /\ wmod' = [wmod EXCEPT ![w] = NoMod]
    /\ LET z == FindZone(wargs[w].zoneName)
       IN  hRet' = [hRet EXCEPT ![z] = [returned |-> TRUE, args |-> wargs[w], mod |-> wmod[w],
                                        at |-> serial[z], seen |-> hReadMax[z]]]
    /\ UNCHANGED ovars
    /\ UNCHANGED <<cvars, calls, rvars, serial0, hTouched, hApplied, hLast, hReadMax, rafter>>

\* Variant: the cancelled call takes its zone out of the pending window.
AfterCtxDoneUnregisters(w) ==
    [Nodes |-> Nodes, changeReady |-> changeReady,
     changeZones |-> [changeZones EXCEPT !.set = @ \ {FindZone(wargs[w].zoneName)}],
     timers |-> timers]

\* The container after w's ModifyRecord returned ctx.Err(): as it was.
AfterCtxDone(w) == [Nodes |-> Nodes, changeReady |-> changeReady, changeZones |-> changeZones,
                    timers |-> timers]

\* The select of ModifyRecord takes the case <-ctx.Done(): return ctx.Err().
SelectCtxDone(w) ==
    /\ ~panicked
    /\ wpc[w] = "select"
    /\ DoneCase(w)
    /\ wpc' = [wpc EXCEPT ![w] = "idle"]
    /\ wret' = [wret EXCEPT ![w] = "ctxErr"]
    /\ wargs' = [wargs EXCEPT ![w] = NoArgs]
    /\ wready' = [wready EXCEPT ![w] = 0]
    /\ ctxDone' = [ctxDone EXCEPT ![w] = FALSE]
    /\ wmod' = [wmod EXCEPT ![w] = NoMod]
    /\ Nodes' = AfterCtxDone(w).Nodes
    /\ changeReady' = AfterCtxDone(w).changeReady
    /\ changeZones' = AfterCtxDone(w).changeZones
    /\ timers' = AfterCtxDone(w).timers
    /\ UNCHANGED ovars
    /\ UNCHANGED <<serial, mutexW, mutexR, chans, closed, applyWait, applyIn, panicked,
                   calls, rvars, serial0, hTouched, hApplied, hLast, hRet, hReadMax, rafter>>

\* The caller cancels the context of a call that waits in the select (a
\* context cancelled earlier in the call is first read there).
Cancel(w) ==
    /\ ~panicked
    /\ wpc[w] = "select"
    /\ ~ctxDone[w]
    /\ ctxDone' = [ctxDone EXCEPT ![w] = TRUE]
    /\ UNCHANGED ovars
    /\ UNCHANGED <<cvars, wpc, wargs, wready, wret, calls, rvars, hvars>>

\* The timer of time.AfterFunc(time.Second, c.applyChanges) expires: a
\* goroutine runs applyChanges and blocks in c.mutex.Lock().
TimerExpires ==
    /\ ~panicked
    /\ timers > 0
    /\ timers' = timers - 1
    /\ applyWait' = applyWait + 1
    /\ UNCHANGED ovars
    /\ UNCHANGED <<Nodes, serial, mutexW, mutexR, changeReady, changeZones, chans, closed,
                   applyIn, panicked, wvars, rvars, hvars>>

\* c.mutex.Lock() of applyChanges succeeds.
ApplyChangesLock ==
    /\ ~panicked
    /\ applyWait > 0
    /\ CanLock
    /\ mutexW' = TRUE
    /\ applyWait' = applyWait - 1
    /\ applyIn' = applyIn + 1
    /\ UNCHANGED ovars
    /\ UNCHANGED <<Nodes, serial, mutexR, changeReady, changeZones, chans, closed, timers,
                   panicked, wvars, rvars, hvars>>

\* The serials after applyChanges' loop over c.changeZones.
AppliedSerials == [z \in ZoneIds |-> IF z \in changeZones.set THEN IncSerial(serial[z]) ELSE serial[z]]

\* Variant: applyChanges drops the channel without closing it.
ClosedAfterApplyUnclosed == closed

\* The closed channels after applyChanges' close(c.changeReady).
ClosedAfterApply == closed \cup {changeReady}

\* applyChanges from the lock to the deferred unlock; close(nil) panics.
ApplyChangesLocked ==
    /\ ~panicked
    /\ applyIn > 0
    /\ serial' = AppliedSerials
    /\ IF changeReady = 0
       THEN /\ panicked' = TRUE
            /\ UNCHANGED <<closed, changeReady, changeZones>>
       ELSE /\ closed' = ClosedAfterApply
            /\ changeReady' = 0
            /\ changeZones' = NilMap
            /\ panicked' = panicked
    /\ mutexW' = FALSE
    /\ applyIn' = applyIn - 1
    /\ hApplied' = [z \in ZoneIds |-> IF z \in hTouched THEN hApplied[z] + 1 ELSE hApplied[z]]
    /\ hTouched' = {}
    /\ UNCHANGED ovars
    /\ UNCHANGED <<Nodes, mutexR, chans, timers, applyWait, wvars, rvars,
                   serial0, hLast, wmod, hRet, hReadMax, rafter>>

\* ResolveResource(name) under the read lock: (result, serial).
ResolveResource(name) ==
    LET z == FirstMatch(name)
    IN  IF z = 0
        THEN [NoResult EXCEPT !.op = "ResolveResource", !.name = name]
        ELSE LET node == matchResource(ZoneDomains[z], name).node
                 rs == resolveNode(Nodes[z], node)
             IN  [NoResult EXCEPT !.op = "ResolveResource", !.name = name, !.zone = z,
                                  !.node = node,
                                  !.records = IF rs # Nil THEN DeepCopy(rs) ELSE Nil,
                                  !.serial = serial[z], !.incs = hApplied[z]]

\* The zones ResolveZone's loop accepts for hostname: they match and the node resolves.
ResolvingZones(hostname) ==
    {z \in ZoneIds :
        /\ matchResource(ZoneDomains[z], hostname).ok
        /\ resolveNode(Nodes[z], matchResource(ZoneDomains[z], hostname).node) # Nil}

\* Variant: every failure is reported as an unknown zone.
ResolveZoneUnknownZone(hostname) ==
    LET found == ResolvingZones(hostname)
    IN  IF found # {}
        THEN LET z == CHOOSE z \in found : \A y \in found : z <= y
             IN  [NoResult EXCEPT !.op = "ResolveZone", !.name = hostname, !.zone = z,
                                  !.domain = ZoneDomains[z]]
        ELSE [NoResult EXCEPT !.op = "ResolveZone", !.name = hostname, !.err = "zone"]

\* ResolveZone(ctx, hostname) under the read lock: (domain, err).
ResolveZone(hostname) ==
    LET found == ResolvingZones(hostname)
    IN  IF found # {}
        THEN LET z == CHOOSE z \in found : \A y \in found : z <= y
             IN  [NoResult EXCEPT !.op = "ResolveZone", !.name = hostname, !.zone = z,
                                  !.domain = ZoneDomains[z]]
        ELSE [NoResult EXCEPT !.op = "ResolveZone", !.name = hostname,
                              !.err = IF FirstMatch(hostname) # 0 THEN "node" ELSE "zone"]

\* TransferZone(name) under the read lock: the (results, serial) it may return.
TransferZone(name) ==
    LET z == FindZone(name)
    IN  IF z = 0
        THEN {[NoResult EXCEPT !.op = "TransferZone", !.name = name]}
        ELSE {[NoResult EXCEPT !.op = "TransferZone", !.name = name, !.zone = z,
                               !.nodes = t, !.serial = serial[z], !.incs = hApplied[z]] :
                t \in transfer(Nodes[z])}

ReadResults(args) ==
    CASE args.op = "ResolveResource" -> {ResolveResource(args.name)}
      [] args.op = "ResolveZone" -> {ResolveZone(args.name)}
      [] args.op = "TransferZone" -> TransferZone(args.name)

\* A read call is entered: the goroutine blocks in c.mutex.RLock().
CallRead(r, args) ==
    /\ ~panicked
    /\ rpc[r] = "idle"
    /\ reads < MaxReads
    /\ reads' = reads + 1
    /\ rpc' = [rpc EXCEPT ![r] = "rlock"]
    /\ rargs' = [rargs EXCEPT ![r] = args]
    /\ rres' = [rres EXCEPT ![r] = NoResult]
    /\ rafter' = [rafter EXCEPT ![r] = hRet]
    /\ UNCHANGED ovars
    /\ UNCHANGED <<cvars, wvars, serial0, hTouched, hApplied, hLast, wmod, hRet, hReadMax>>

\* c.mutex.RLock() succeeds.
ReadLock(r) ==
    /\ ~panicked
    /\ rpc[r] = "rlock"
    /\ CanRLock
    /\ mutexR' = mutexR + 1
    /\ rpc' = [rpc EXCEPT ![r] = "rlocked"]
    /\ UNCHANGED ovars
    /\ UNCHANGED <<Nodes, serial, mutexW, changeReady, changeZones, chans, closed, timers,
                   applyWait, applyIn, panicked, wvars, rargs, rres, reads, hvars>>

\* The read from the lock to the deferred RUnlock.
ReadLocked(r) ==
    /\ ~panicked
    /\ rpc[r] = "rlocked"
    /\ \E res \in ReadResults(rargs[r]) :
        /\ rres' = [rres EXCEPT ![r] = res]
        /\ hReadMax' = IF res.zone # 0 /\ res.op # "ResolveZone" /\ Lt32(hReadMax[res.zone], res.serial)
                       THEN [hReadMax EXCEPT ![res.zone] = res.serial]
                       ELSE hReadMax
    /\ mutexR' = mutexR - 1
    /\ rpc' = [rpc EXCEPT ![r] = "idle"]
    /\ rargs' = [rargs EXCEPT ![r] = NoRead]
    /\ UNCHANGED ovars
    /\ UNCHANGED <<Nodes, serial, mutexW, changeReady, changeZones, chans, closed, timers,
                   applyWait, applyIn, panicked, wvars, reads,
                   serial0, hTouched, hApplied, hLast, wmod, hRet, rafter>>

\* The steps of the goroutines that write and of the timer.
WriteNext ==
    \/ \E w \in Writers, a \in ModifyInputs : CallModifyRecord(w, a)
    \/ \E w \in Writers : ModifyRecordLock(w)
    \/ \E w \in Writers : ModifyRecordLocked(w)
    \/ \E w \in Writers : SelectReady(w)
    \/ \E w \in Writers : SelectCtxDone(w)
    \/ \E w \in Writers : Cancel(w)
    \/ TimerExpires
    \/ ApplyChangesLock
    \/ ApplyChangesLocked

WriteSpec == Init /\ [][WriteNext]_vars

\* The same with the goroutines that read, and fewer calls.
Next ==
    \/ \E w \in Writers, a \in ModifyInputs : CallModifyRecord(w, a) /\ calls < MaxCallsRead
    \/ \E w \in Writers : ModifyRecordLock(w)
    \/ \E w \in Writers : ModifyRecordLocked(w)
    \/ \E w \in Writers : SelectReady(w)
    \/ \E w \in Writers : SelectCtxDone(w)
    \/ \E w \in Writers : Cancel(w)
    \/ TimerExpires
    \/ ApplyChangesLock
    \/ ApplyChangesLocked
    \/ \E r \in Readers, a \in ReadInputs : CallRead(r, a)
    \/ \E r \in Readers : ReadLock(r)
    \/ \E r \in Readers : ReadLocked(r)

Spec == Init /\ [][Next]_vars

\* The fairness ModifyRecord's termination rests on: the timer expires,
\* c.mutex.Lock() is eventually granted to a goroutine that keeps asking,
\* and a goroutine that can take a step takes it.
WriteFairness ==
    /\ WF_vars(TimerExpires)
    /\ SF_vars(ApplyChangesLock)
    /\ WF_vars(ApplyChangesLocked)
    /\ \A w \in Writers : SF_vars(ModifyRecordLock(w))
    /\ \A w \in Writers : WF_vars(ModifyRecordLocked(w))
    /\ \A w \in Writers : WF_vars(SelectReady(w))

FairWriteSpec == WriteSpec /\ WriteFairness

\* ------------------------------------------------------- a Zone on its own

\* The arguments of Zone.modifyRecord: on node "w" a record of every type,
\* a second TXT record and the empty record of every type; on the apex,
\* the wildcard and node "v" an A record and the empty A record.
RecNS == [type |-> TypeNS, value |-> <<"n">>, ttl |-> 1]
RecAAAA == [type |-> TypeAAAA, value |-> <<32, 1>>, ttl |-> 1]

EmptyOf(t) == [type |-> t, value |-> <<>>, ttl |-> 0]

NodeV == <<"v">>

ZoneModifyInputs ==
    {[node |-> NodeW, r |-> r] :
        r \in {RecA, RecNS, RecAAAA, TXT(<<"x">>), TXT(<<"y">>)}
              \cup {EmptyOf(t) : t \in {TypeA, TypeNS, TypeTXT, TypeAAAA}}}
        \cup {[node |-> n, r |-> r] : n \in {Apex, Wildcard, NodeV}, r \in {RecA, EmptyOf(TypeA)}}

\* z.modifyRecord(node, r) on the first zone.
ZoneModifyRecord(node, r) ==
    /\ Nodes' = [Nodes EXCEPT ![1] = modifyRecord(@, node, r)]
    /\ UNCHANGED ovars
    /\ UNCHANGED <<serial, mutexW, mutexR, changeReady, changeZones, chans, closed, timers,
                   applyWait, applyIn, panicked, wvars, rvars, hvars>>

ZoneNext == \E a \in ZoneModifyInputs : ZoneModifyRecord(a.node, a.r)

ZoneSpec == Init /\ [][ZoneNext]_vars

\* ------------------------------------------------------------ DNS server

\* Record types, class and reply codes of the DNS library that handle uses.
TypeSOA == 6
TypeIXFR == 251
TypeAXFR == 252
TypeANY == 255
ClassINET == 1

RcodeSuccess == "NOERROR"
RcodeServerFailure == "SERVFAIL"
RcodeNameError == "NXDOMAIN"
RcodeNotImplemented == "NOTIMP"

\* Serial number used for negative answers.
defaultSerial == One32

defaultRefresh == 7200
defaultRetry == 900
defaultExpire == 1209600
defaultTTL == 3600

\* SOA.init: the error and the SOA it leaves.
SOAinit(c) ==
    IF c.NS # Nil
    THEN IF c.Mbox = Nil
         THEN [err |-> TRUE, soa |-> c]
         ELSE [err |-> FALSE,
               soa |-> [c EXCEPT !.Refresh = IF @ = 0 THEN defaultRefresh ELSE @,
                                 !.Retry = IF @ = 0 THEN defaultRetry ELSE @,
                                 !.Expire = IF @ = 0 THEN defaultExpire ELSE @,
                                 !.TTL = IF @ = 0 THEN defaultTTL ELSE @]]
    ELSE [err |-> FALSE, soa |-> c]

authority(s) == s.NS # Nil

\* strings.ToLower, on the letters the requests use.
Lower(c) == IF c = "A" THEN "a" ELSE IF c = "W" THEN "w" ELSE c

ToLower(name) == [i \in 1..Len(name) |-> Lower(name[i])]

\* Variant: only records of the type asked for are included.
replyTypeExact(q, recordType) == q.Qtype = recordType

replyType(q, recordType) == q.Qtype \in {TypeAXFR, TypeIXFR, TypeANY, recordType}

transferReq(q) == q.Qtype \in {TypeAXFR, TypeIXFR}

\* Variant: only a name error is a negative answer.
negativeAnswerNameError(reply, replyCode) == replyCode = RcodeNameError

negativeAnswer(reply, replyCode) == replyCode = RcodeNameError \/ Len(reply.Answer) = 0

\* Variant: the SOA carries the serial as given, 0 included.
soaAnswerRaw(q, s, n) ==
    [Name |-> q.Name, Rrtype |-> TypeSOA, Ttl |-> s.TTL,
     Data |-> [Ns |-> s.NS, Mbox |-> s.Mbox, Serial |-> n,
               Refresh |-> s.Refresh, Retry |-> s.Retry, Expire |-> s.Expire,
               Minttl |-> s.TTL]]

soaAnswer(q, s, n) ==
    [Name |-> q.Name, Rrtype |-> TypeSOA, Ttl |-> s.TTL,
     Data |-> [Ns |-> s.NS, Mbox |-> s.Mbox,
               Serial |-> IF n = Zero32 THEN defaultSerial ELSE n,
               Refresh |-> s.Refresh, Retry |-> s.Retry, Expire |-> s.Expire,
               Minttl |-> s.TTL]]

\* The NS record of the configured primary name server.
nsAnswer(q, s) == [Name |-> q.Name, Rrtype |-> TypeNS, Ttl |-> s.TTL, Data |-> s.NS]

\* Variant: a transfer request is passed to TransferZone whether or not
\* SOA authority is configured.
HandleResolveAnyTransfer(q, s) ==
    IF transferReq(q)
    THEN {[nodes |-> t.nodes, nil |-> t.zone = 0, serial |-> t.serial,
           hasApex |-> TRUE, calls |-> <<t>>] :
                t \in TransferZone(ToLower(q.Name))}
    ELSE LET t == ResolveResource(ToLower(q.Name))
         IN  IF t.node # Nil
             THEN {[nodes |-> <<[name |-> t.node, records |-> t.records]>>, nil |-> FALSE,
                    serial |-> t.serial, hasApex |-> t.node = Apex, calls |-> <<t>>]}
             ELSE {[nodes |-> <<>>, nil |-> TRUE, serial |-> t.serial, hasApex |-> FALSE,
                    calls |-> <<t>>]}

\* The resolver call of handle: [nodes, nil, serial, hasApex, calls], nil
\* telling a nil nodes slice from an empty one.
HandleResolve(q, s) ==
    IF transferReq(q)
    THEN IF authority(s)
         THEN {[nodes |-> t.nodes, nil |-> t.zone = 0, serial |-> t.serial,
                hasApex |-> TRUE, calls |-> <<t>>] :
                    t \in TransferZone(ToLower(q.Name))}
         ELSE {[nodes |-> <<>>, nil |-> TRUE, serial |-> Zero32, hasApex |-> FALSE,
                calls |-> <<>>]}
    ELSE LET t == ResolveResource(ToLower(q.Name))
         IN  IF t.node # Nil
             THEN {[nodes |-> <<[name |-> t.node, records |-> t.records]>>, nil |-> FALSE,
                    serial |-> t.serial, hasApex |-> t.node = Apex, calls |-> <<t>>]}
             ELSE {[nodes |-> <<>>, nil |-> TRUE, serial |-> t.serial, hasApex |-> FALSE,
                    calls |-> <<t>>]}

\* Variant: every record is owned by the name asked for.
OwnerNameAsked(q, node, hasApex) == q.Name

\* Variant: a concrete node's records are always owned by node.name.
OwnerNamePrefixed(q, node, hasApex) ==
    IF node = Apex THEN q.Name
    ELSE IF node = Wildcard THEN <<"*", ".">> \o q.Name
    ELSE node \o <<".">> \o q.Name

\* The owner name of a node's records in the reply.
OwnerName(q, node, hasApex) ==
    IF node = Apex THEN q.Name
    ELSE IF node = Wildcard THEN <<"*", ".">> \o q.Name
    ELSE IF hasApex THEN node \o <<".">> \o q.Name
    ELSE q.Name

\* The answers for the records of one node, those the question asks for.
RECURSIVE RecordAnswers(_, _, _)
RecordAnswers(q, name, rs) ==
    IF rs = <<>> THEN <<>>
    ELSE (IF replyType(q, Head(rs).type)
          THEN <<[Name |-> name, Rrtype |-> Head(rs).type, Ttl |-> Head(rs).ttl,
                  Data |-> Head(rs).value]>>
          ELSE <<>>) \o RecordAnswers(q, name, Tail(rs))

RECURSIVE NodeAnswers(_, _, _)
NodeAnswers(q, nodes, hasApex) ==
    IF nodes = <<>> THEN <<>>
    ELSE RecordAnswers(q, OwnerName(q, Head(nodes).name, hasApex), Head(nodes).records)
            \o NodeAnswers(q, Tail(nodes), hasApex)

\* The reply of handle to question q once the resolver has answered r.
HandleReply(q, s, r) ==
    LET answer ==
            IF r.nil THEN <<>>
            ELSE (IF r.hasApex /\ authority(s)
                  THEN (IF replyType(q, TypeSOA) THEN <<soaAnswer(q, s, r.serial)>> ELSE <<>>)
                        \o (IF replyType(q, TypeNS) THEN <<nsAnswer(q, s)>> ELSE <<>>)
                  ELSE <<>>)
                 \o NodeAnswers(q, r.nodes, r.hasApex)
                 \o (IF transferReq(q) THEN <<soaAnswer(q, s, r.serial)>> ELSE <<>>)
        replyCode == IF r.nil THEN RcodeNameError ELSE RcodeSuccess
        reply == [Rcode |-> replyCode, Authoritative |-> authority(s), Answer |-> answer,
                  Ns |-> <<>>]
    IN  IF negativeAnswer(reply, replyCode) /\ authority(s)
        THEN [reply EXCEPT !.Ns = <<soaAnswer(q, s, r.serial)>>]
        ELSE reply

\* Variant: the class of the question is not looked at.
handleAnyClass(msg, s) ==
    IF Len(msg.Question) # 1
    THEN {[reply |-> [NoReply EXCEPT !.Rcode = RcodeNotImplemented], calls |-> <<>>]}
    ELSE {[reply |-> HandleReply(msg.Question[1], s, r), calls |-> r.calls] :
            r \in HandleResolve(msg.Question[1], s)}

\* handle(w, questMsg, resolver, soa, ...): the replies it may write and the
\* resolver calls it makes.
handle(msg, s) ==
    IF Len(msg.Question) # 1
    THEN {[reply |-> [NoReply EXCEPT !.Rcode = RcodeNotImplemented], calls |-> <<>>]}
    ELSE LET q == msg.Question[1]
         IN  IF q.Qclass # ClassINET
             THEN {[reply |-> [NoReply EXCEPT !.Rcode = RcodeNotImplemented], calls |-> <<>>]}
             ELSE {[reply |-> HandleReply(q, s, r), calls |-> r.calls] :
                    r \in HandleResolve(q, s)}

\* Config.SOA values given to Serve: none, a primary name server with and
\* without its mailbox.
ServeConfigs ==
    {NotServing,
     [NotServing EXCEPT !.NS = <<"n", ".">>, !.Mbox = <<"m", ".">>],
     [NotServing EXCEPT !.NS = <<"n", ".">>]}

\* The names, types and classes of the questions.
QueryNames ==
    {ZoneDomains[1], ZoneDomains[2], HostW, <<"W", ".", "a", ".">>, UnknownDomain,
     <<"v", ".", "w", ".", "a", ".">>}

TypeMX == 15
ClassCHAOS == 3

QueryTypes == {TypeA, TypeNS, TypeSOA, TypeMX, TypeTXT, TypeAAAA, TypeIXFR, TypeAXFR, TypeANY}

Question(name, qtype, qclass) == [Name |-> name, Qtype |-> qtype, Qclass |-> qclass]

\* The messages received: one question of class IN, one of another class,
\* no question, two questions.
QueryMsgs ==
    {[Question |-> <<Question(n, t, ClassINET)>>, handled |-> TRUE] :
        n \in QueryNames, t \in QueryTypes}
    \cup {[Question |-> <<Question(HostW, TypeA, ClassCHAOS)>>, handled |-> TRUE],
          [Question |-> <<>>, handled |-> TRUE],
          [Question |-> <<Question(HostW, TypeA, ClassINET),
                          Question(ZoneDomains[1], TypeA, ClassINET)>>, handled |-> TRUE]}

\* The records the zone "a." is given before it is served: A, NS and TXT
\* records on node "w", an A record on the apex (and its removal) and on
\* the wildcard, an AAAA record on node "v".
SetupInputs ==
    {[node |-> NodeW, r |-> r] : r \in {RecA, RecNS, TXT(<<"x">>)}}
        \cup {[node |-> Apex, r |-> RecA], [node |-> Apex, r |-> EmptyOf(TypeA)],
              [node |-> Wildcard, r |-> RecA], [node |-> NodeV, r |-> RecAAAA]}

\* z.modifyRecord(node, r) before the container has been used.
SetupZone(node, r) ==
    /\ ~soa.serving
    /\ hCalls = <<>>
    /\ ZoneModifyRecord(node, r)

\* Serve(ctx, resolver, serverConfig) up to the listeners: config.SOA.init().
Serve(config) ==
    /\ soa = NotServing
    /\ soa' = [SOAinit(config).soa EXCEPT !.serving = ~SOAinit(config).err]
    /\ soa' # soa
    /\ UNCHANGED <<cvars, wvars, rvars, hvars, questMsg, replyMsg, hCalls, mvars, xvars>>

\* A request arrives and handle answers it; its resolver call reads the
\* zones under the read lock.
Handle(msg) ==
    /\ soa.serving
    /\ CanRLock
    /\ \E h \in handle(msg, soa) :
        /\ replyMsg' = h.reply
        /\ hCalls' = h.calls
    /\ questMsg' = msg
    /\ UNCHANGED <<cvars, wvars, rvars, hvars, soa, mvars, xvars>>

\* ResolveZone is called (by the ACME client) and returns.
CallResolveZone(hostname) ==
    /\ CanRLock
    /\ hCalls' = <<ResolveZone(hostname)>>
    /\ questMsg' = NoMsg
    /\ replyMsg' = NoReply
    /\ UNCHANGED <<cvars, wvars, rvars, hvars, soa, mvars, xvars>>

\* The zones are set up, then the server answers requests over them.
ServeNext ==
    \/ \E a \in SetupInputs : SetupZone(a.node, a.r)
    \/ \E c \in ServeConfigs : Serve(c)
    \/ \E m \in QueryMsgs : Handle(m)
    \/ \E n \in QueryNames : CallResolveZone(n)

ServeSpec == Init /\ [][ServeNext]_vars

\* ------------------------------- names with the apex and wildcard signs

\* The records the zones are given before they are served: in zone "a."
\* the A record of the apex removed, an A record on the wildcard and on
\* node "b"; in zone "b.a." an A record on the apex.
NodeB == <<"b">>

NameSetupInputs ==
    {[zone |-> 1, node |-> Apex, r |-> EmptyOf(TypeA)],
     [zone |-> 1, node |-> Wildcard, r |-> RecA],
     [zone |-> 1, node |-> NodeB, r |-> RecA],
     [zone |-> 2, node |-> Apex, r |-> RecA]}

\* The names asked for: the two domains, the apex sign and the wildcard
\* sign as labels below them, and a node that no zone defines.
NameQueryNames ==
    {ZoneDomains[1], ZoneDomains[2], <<"@">> \o <<".">> \o ZoneDomains[1],
     <<"*">> \o <<".">> \o ZoneDomains[1], <<"x">> \o <<".">> \o ZoneDomains[1],
     <<"@">> \o <<".">> \o ZoneDomains[2]}

NameQueryMsgs ==
    {[Question |-> <<Question(n, t, ClassINET)>>, handled |-> TRUE] :
        n \in NameQueryNames, t \in {TypeA, TypeSOA, TypeANY}}

\* z.modifyRecord(node, r) on zone z before the container has been used.
SetupZoneOf(z, node, r) ==
    /\ ~soa.serving
    /\ hCalls = <<>>
    /\ Nodes' = [Nodes EXCEPT ![z] = modifyRecord(@, node, r)]
    /\ UNCHANGED ovars
    /\ UNCHANGED <<serial, mutexW, mutexR, changeReady, changeZones, chans, closed, timers,
                   applyWait, applyIn, panicked, wvars, rvars, hvars>>

\* ResolveZone(ctx, name) and ResolveResource(name) are called one after
\* the other, with no write in between.
CallResolveBoth(name) ==
    /\ CanRLock
    /\ hCalls' = <<ResolveZone(name), ResolveResource(name)>>
    /\ questMsg' = NoMsg
    /\ replyMsg' = NoReply
    /\ UNCHANGED <<cvars, wvars, rvars, hvars, soa, mvars, xvars>>

NamesNext ==
    \/ \E a \in NameSetupInputs : SetupZoneOf(a.zone, a.node, a.r)
    \/ \E c \in ServeConfigs : Serve(c)
    \/ \E m \in NameQueryMsgs : Handle(m)
    \/ \E n \in NameQueryNames : CallResolveBoth(n)

NamesSpec == Init /\ [][NamesNext]_vars

\* ------------------------------------------------------ handle, step by step

\* The deferred functions of handle run in the reverse order of the defer
\* statements: WriteMsg, then w.Close, then recover.

\* The records the zone "a." is given, and the messages received.
HandlerSetupInputs ==
    {[node |-> NodeW, r |-> RecA], [node |-> NodeW, r |-> RecNS],
     [node |-> Wildcard, r |-> RecA]}

HandlerMsgs ==
    {[Question |-> <<Question(n, t, ClassINET)>>, handled |-> TRUE] :
        n \in {ZoneDomains[1], HostW, UnknownDomain}, t \in {TypeA, TypeNS, TypeAXFR, TypeANY}}
    \cup {[Question |-> <<Question(HostW, TypeA, ClassCHAOS)>>, handled |-> TRUE],
          [Question |-> <<>>, handled |-> TRUE],
          [Question |-> <<Question(HostW, TypeA, ClassINET),
                          Question(ZoneDomains[1], TypeA, ClassINET)>>, handled |-> TRUE]}

\* Variant: the panic is not recovered.
AfterRecoverNone(panicking) == panicking

\* The first deferred function: recover() ends a panic; what remains of it.
AfterRecover(panicking) == FALSE

\* handle is called with a message and a writer of its own; the deferred
\* functions are set up and replyCode is SERVFAIL.
HandleEnter(msg) ==
    /\ soa.serving
    /\ hpc = "idle"
    /\ questMsg' = msg
    /\ hreply' = [NoReply EXCEPT !.Rcode = RcodeServerFailure]
    /\ replyMsg' = NoReply
    /\ hCalls' = <<>>
    /\ hres' = NoResolve
    /\ hpanic' = FALSE
    /\ hpanicked' = FALSE
    /\ wlog' = <<>>
    /\ hpc' = "question"
    /\ UNCHANGED <<cvars, wvars, rvars, hvars, mvars, lvars, avars, nvars, soa, escaped>>

\* The question section is looked at.
HandleQuestion ==
    /\ hpc = "question"
    /\ IF Len(questMsg.Question) # 1 \/ questMsg.Question[1].Qclass # ClassINET
       THEN hreply' = [hreply EXCEPT !.Rcode = RcodeNotImplemented] /\ hpc' = "write"
       ELSE hreply' = [hreply EXCEPT !.Authoritative = authority(soa)] /\ hpc' = "resolve"
    /\ UNCHANGED <<cvars, wvars, rvars, hvars, mvars, lvars, avars, nvars, soa, questMsg, replyMsg, hCalls,
                   hres, hpanic, hpanicked, escaped, wlog>>

\* The resolver is called and returns.
HandleResolves ==
    /\ hpc = "resolve"
    /\ CanRLock
    /\ \E r \in HandleResolve(questMsg.Question[1], soa) :
        /\ hres' = r
        /\ hCalls' = r.calls
    /\ hpc' = "answer"
    /\ UNCHANGED <<cvars, wvars, rvars, hvars, mvars, lvars, avars, nvars, soa, questMsg, replyMsg, hreply,
                   hpanic, hpanicked, escaped, wlog>>

\* The resolver is called and panics.
ResolverPanics ==
    /\ hpc = "resolve"
    /\ ~transferReq(questMsg.Question[1]) \/ authority(soa)
    /\ hpanic' = TRUE
    /\ hpanicked' = TRUE
    /\ hpc' = "write"
    /\ UNCHANGED <<cvars, wvars, rvars, hvars, mvars, lvars, avars, nvars, soa, questMsg, replyMsg, hCalls,
                   hres, hreply, escaped, wlog>>

\* The answer is built and replyCode set.
HandleAnswers ==
    /\ hpc = "answer"
    /\ hreply' = HandleReply(questMsg.Question[1], soa, hres)
    /\ hpc' = "write"
    /\ UNCHANGED <<cvars, wvars, rvars, hvars, mvars, lvars, avars, nvars, soa, questMsg, replyMsg, hCalls,
                   hres, hpanic, hpanicked, escaped, wlog>>

\* The type assertion on the k-th answer, a record of a node, panics: the
\* answers before it have been appended, replyCode has not been set.
AnswerPanics(k) ==
    LET q == questMsg.Question[1]
        full == HandleReply(q, soa, hres).Answer
        head == IF hres.hasApex /\ authority(soa)
                THEN (IF replyType(q, TypeSOA) THEN 1 ELSE 0)
                        + (IF replyType(q, TypeNS) THEN 1 ELSE 0)
                ELSE 0
        tail == IF transferReq(q) THEN 1 ELSE 0
    IN  /\ hpc = "answer"
        /\ ~hres.nil
        /\ head < k /\ k <= Len(full) - tail
        /\ hreply' = [hreply EXCEPT !.Answer = SubSeq(full, 1, k - 1)]
        /\ hpanic' = TRUE
        /\ hpanicked' = TRUE
        /\ hpc' = "write"
        /\ UNCHANGED <<cvars, wvars, rvars, hvars, mvars, lvars, avars, nvars, soa, questMsg, replyMsg, hCalls,
                       hres, escaped, wlog>>

\* Deferred: w.WriteMsg(replyMsg.SetRcode(questMsg, replyCode)); an error
\* is logged.
DeferredWrite(err) ==
    /\ hpc = "write"
    /\ replyMsg' = hreply
    /\ wlog' = Append(wlog, [op |-> "WriteMsg", err |-> err])
    /\ hpc' = "close"
    /\ UNCHANGED <<cvars, wvars, rvars, hvars, mvars, lvars, avars, nvars, soa, questMsg, hCalls,
                   hres, hreply, hpanic, hpanicked, escaped>>

\* Deferred: w.Close(); an error is logged.
DeferredClose(err) ==
    /\ hpc = "close"
    /\ wlog' = Append(wlog, [op |-> "Close", err |-> err])
    /\ hpc' = "recover"
    /\ UNCHANGED <<cvars, wvars, rvars, hvars, mvars, lvars, avars, nvars, soa, questMsg, replyMsg, hCalls,
                   hres, hreply, hpanic, hpanicked, escaped>>

\* Deferred: recover(); then handle returns, or the panic goes on to its
\* caller.
DeferredRecover ==
    /\ hpc = "recover"
    /\ hpanic' = FALSE
    /\ escaped' = (escaped \/ AfterRecover(hpanic))
    /\ hpc' = "idle"
    /\ UNCHANGED <<cvars, wvars, rvars, hvars, mvars, lvars, avars, nvars, soa, questMsg, replyMsg, hCalls,
                   hres, hreply, hpanicked, wlog>>

\* The zone is set up, the server started, and handle runs for one message
\* after the other.
HandlerNext ==
    \/ \E a \in HandlerSetupInputs : SetupZone(a.node, a.r)
    \/ \E c \in ServeConfigs : Serve(c)
    \/ \E m \in HandlerMsgs : HandleEnter(m)
    \/ HandleQuestion
    \/ HandleResolves
    \/ ResolverPanics
    \/ HandleAnswers
    \/ \E k \in 1..MaxAnswers : AnswerPanics(k)
    \/ \E err \in BOOLEAN : DeferredWrite(err)
    \/ \E err \in BOOLEAN : DeferredClose(err)
    \/ DeferredRecover

HandlerSpec == Init /\ [][HandlerNext]_vars

\* ------------------------------------------------------------------ Serve

\* errors := make(chan error, 4)
ErrorsCap == 4

\* Variant: the errors channel is unbuffered but for one error.
ErrorsCapOne == ErrorsCap - 3

\* Variant: the channel's capacity, for the goroutines that send on it.
SendCapOne == ErrorsCapOne

\* The capacity of the errors channel as its senders meet it.
SendCap == ErrorsCap

\* Variant: Serve takes every listener for switched off.
DisabledAlways(l) == TRUE

\* Listener l is switched off in the Config.
Disabled(l) == IF l = "tcp" THEN scfg.NoTCP ELSE scfg.NoUDP

\* Serve(ctx, resolver, serverConfig) is called; Ready tells whether the
\* Config has a Ready channel.
ServeCall(c, noTCP, noUDP, ready) ==
    /\ spc = "idle"
    /\ scfg' = [SOA |-> c, NoTCP |-> noTCP, NoUDP |-> noUDP, Ready |-> ready]
    /\ spc' = "soa"
    /\ UNCHANGED <<restL, sret, parentDone, sctxDone, sock, watch, lserve, errors,
                   readyClosed, unhealthy>>

\* config.SOA.init(); on success the context is derived and its cancel
\* deferred.
ServeInit ==
    /\ spc = "soa"
    /\ IF SOAinit(scfg.SOA).err
       THEN sret' = "soa" /\ spc' = "returned" /\ sctxDone' = sctxDone
       ELSE sret' = sret /\ spc' = "tcp" /\ sctxDone' = parentDone
    /\ UNCHANGED <<restL, scfg, parentDone, sock, watch, lserve, errors, readyClosed,
                   unhealthy>>

\* The block of listener l: if it is enabled its socket is bound and its
\* two goroutines are started; if the bind fails Serve returns the error,
\* and the deferred cancel runs.
ServeListen(l, ok) ==
    /\ spc = l
    /\ IF Disabled(l)
       THEN /\ spc' = (IF l = "tcp" THEN "udp" ELSE "ready")
            /\ UNCHANGED <<sret, sctxDone, sock, watch, lserve, unhealthy>>
       ELSE IF ok
            THEN /\ sock' = [sock EXCEPT ![l] = "open"]
                 /\ watch' = [watch EXCEPT ![l] = "waiting"]
                 /\ lserve' = [lserve EXCEPT ![l] = "serving"]
                 /\ spc' = (IF l = "tcp" THEN "udp" ELSE "ready")
                 /\ UNCHANGED <<sret, sctxDone, unhealthy>>
            ELSE /\ sret' = "bind"
                 /\ spc' = "returned"
                 /\ sctxDone' = TRUE
                 /\ unhealthy' = TRUE
                 /\ UNCHANGED <<sock, watch, lserve>>
    /\ UNCHANGED <<restL, scfg, parentDone, errors, readyClosed>>

\* if config.Ready != nil { close(config.Ready) }
ServeReady ==
    /\ spc = "ready"
    /\ readyClosed' = readyClosed + (IF scfg.Ready THEN 1 ELSE 0)
    /\ spc' = "wait"
    /\ UNCHANGED <<restL, scfg, sret, parentDone, sctxDone, sock, watch, lserve, errors,
                   unhealthy>>

\* err = <-errors; return, and the deferred cancel runs.
ServeReceive ==
    /\ spc = "wait"
    /\ errors # <<>>
    /\ sret' = Head(errors)
    /\ errors' = Tail(errors)
    /\ spc' = "returned"
    /\ sctxDone' = TRUE
    /\ UNCHANGED <<restL, scfg, parentDone, sock, watch, lserve, readyClosed, unhealthy>>

\* The context given to Serve is cancelled, and with it the derived one.
ParentCancel ==
    /\ ~parentDone
    /\ parentDone' = TRUE
    /\ sctxDone' = (sctxDone \/ spc \notin {"idle", "soa"})
    /\ UNCHANGED <<restL, scfg, spc, sret, sock, watch, lserve, errors, readyClosed,
                   unhealthy>>

\* The watcher of l: <-ctx.Done(); errors <- ctx.Err()
WatcherSends(l) ==
    /\ watch[l] = "waiting"
    /\ sctxDone
    /\ Len(errors) < SendCap
    /\ errors' = Append(errors, "ctx")
    /\ watch' = [watch EXCEPT ![l] = "sent"]
    /\ UNCHANGED <<restL, scfg, spc, sret, parentDone, sctxDone, sock, lserve, readyClosed,
                   unhealthy>>

\* The watcher of l returns: the deferred Close of the socket.
WatcherCloses(l) ==
    /\ watch[l] = "sent"
    /\ sock' = [sock EXCEPT ![l] = "closed"]
    /\ watch' = [watch EXCEPT ![l] = "done"]
    /\ UNCHANGED <<restL, scfg, spc, sret, parentDone, sctxDone, lserve, errors,
                   readyClosed, unhealthy>>

\* ActivateAndServe of l returns because its socket is closed, and the
\* error is sent.
ListenerStops(l) ==
    /\ lserve[l] = "serving"
    /\ sock[l] = "closed"
    /\ Len(errors) < SendCap
    /\ errors' = Append(errors, "closed")
    /\ lserve' = [lserve EXCEPT ![l] = "done"]
    /\ UNCHANGED <<restL, scfg, spc, sret, parentDone, sctxDone, sock, watch, readyClosed,
                   unhealthy>>

\* ActivateAndServe of l fails while its socket is open, and the error is
\* sent.
ListenerFails(l) ==
    /\ lserve[l] = "serving"
    /\ sock[l] = "open"
    /\ Len(errors) < SendCap
    /\ errors' = Append(errors, "listener")
    /\ lserve' = [lserve EXCEPT ![l] = "done"]
    /\ unhealthy' = TRUE
    /\ UNCHANGED <<restL, scfg, spc, sret, parentDone, sctxDone, sock, watch, readyClosed>>

\* What Serve and its goroutines do by themselves.
ListenProgress ==
    \/ ServeInit
    \/ \E l \in Listeners, ok \in BOOLEAN : ServeListen(l, ok)
    \/ ServeReady
    \/ ServeReceive
    \/ \E l \in Listeners : WatcherSends(l)
    \/ \E l \in Listeners : WatcherCloses(l)
    \/ \E l \in Listeners : ListenerStops(l)

ListenNext ==
    \/ \E c \in ServeConfigs, noTCP \in BOOLEAN, noUDP \in BOOLEAN, ready \in BOOLEAN :
            ServeCall(c, noTCP, noUDP, ready)
    \/ ParentCancel
    \/ \E l \in Listeners : ListenerFails(l)
    \/ ListenProgress

ListenSpec == Init /\ [][ListenNext]_vars

\* Serve and each goroutine go on when they can.
ListenFairness ==
    /\ WF_vars(ServeInit)
    /\ WF_vars(\E l \in Listeners, ok \in BOOLEAN : ServeListen(l, ok))
    /\ WF_vars(ServeReady)
    /\ WF_vars(ServeReceive)
    /\ \A l \in Listeners :
        /\ WF_vars(WatcherSends(l))
        /\ WF_vars(WatcherCloses(l))
        /\ WF_vars(ListenerStops(l))

FairListenSpec == ListenSpec /\ ListenFairness

\* ----------------------------------------------------------------- Verify

challengeType == "dns-01"
challengeNode == "_acme-challenge"
challengeTTL == 1

\* The errors Verify makes itself; the others are those of the calls.
ErrInvalid == "acmedns: invalid authorization"
ErrNoCombinations == "acmedns: no supported challenge combinations"
ErrUnsupported == "acmedns: unsupported challenge types"

\* The authorizations the ACME server may return: a status, up to
\* MaxChallenges challenges by type, and combinations of challenge indices
\* (from 0), among them none, several, one of two challenges, and one with
\* an index that no challenge has.
ChallengeLists ==
    UNION {[1..n -> {challengeType, "http-01"}] : n \in 0..MaxChallenges}

CombinationLists ==
    {<<>>, << <<0>> >>, << <<0>>, <<1>> >>, << <<1>>, <<0>> >>, << <<0, 1>> >>,
     << <<0, 1>>, <<1>> >>, << <<MaxChallenges>> >>}

Authorizations ==
    {[Status |-> st, Challenges |-> cs, Combinations |-> cb] :
        st \in {"valid", "invalid", "pending"}, cs \in ChallengeLists, cb \in CombinationLists}

\* Variant: every combination of the authorization is tried as if it were
\* its first challenge alone.
SingleComboAny(combo, challenges) == combo # <<>> /\ combo[1] < Len(challenges)

\* len(combo) == 1 and its index is that of a challenge.
SingleCombo(combo, challenges) == Len(combo) = 1 /\ combo[1] < Len(challenges)

\* Variant: an invalid authorization is treated like a pending one.
StatusCaseNoInvalid(status) == IF status = "valid" THEN "valid" ELSE "default"

\* The case the switch on authz.Status takes.
StatusCase(status) == IF status \in {"valid", "invalid"} THEN status ELSE "default"

\* Verify(ctx, client, dns, serverName, zone) up to the switch on the
\* status: client.Authorize fails, or returns a.
VerifyCall(a, ok) ==
    /\ apc = "idle"
    /\ aret = "none"
    /\ alog' = Append(alog, [op |-> "Authorize", ok |-> ok])
    /\ IF ~ok
       THEN aret' = "Authorize" /\ apc' = "done" /\ UNCHANGED <<authz, combos, acombo>>
       ELSE /\ authz' = a
            /\ IF StatusCase(a.Status) = "valid"
               THEN aret' = "" /\ apc' = "done" /\ UNCHANGED <<combos, acombo>>
               ELSE IF StatusCase(a.Status) = "invalid"
               THEN aret' = ErrInvalid /\ apc' = "done" /\ UNCHANGED <<combos, acombo>>
               ELSE /\ aret' = aret
                    /\ apc' = "loop"
                    /\ combos' = IF a.Combinations = <<>>
                                 THEN << [i \in 1..Len(a.Challenges) |-> i - 1] >>
                                 ELSE a.Combinations
                    /\ acombo' = 1
    /\ UNCHANGED <<restA, aerr, accepted, adefers>>

\* The head of the loop over combos: the next combination is skipped or
\* its challenge taken, or the loop ends.
LoopStep ==
    /\ apc = "loop"
    /\ IF acombo > Len(combos)
       THEN apc' = "after" /\ acombo' = acombo
       ELSE IF SingleCombo(combos[acombo], authz.Challenges)
            THEN apc' = "fulfill" /\ acombo' = acombo
            ELSE apc' = "loop" /\ acombo' = acombo + 1
    /\ UNCHANGED <<restA, authz, combos, aerr, accepted, adefers, aret, alog>>

\* The challenge of the combination at hand.
Chal == combos[acombo][1] + 1

\* What err = fulfillChallenge(ctx, client, chal, dns, zone) and the defer
\* that follows it do to acquireAuthorization, given how the calls end.
FulfillSteps(recordOK, modifyOK) ==
    /\ IF authz.Challenges[Chal] # challengeType
       THEN /\ aerr' = ErrUnsupported
            /\ alog' = alog
            /\ apc' = "loop" /\ acombo' = acombo + 1 /\ adefers' = adefers
       ELSE IF ~recordOK
       THEN /\ aerr' = "DNS01ChallengeRecord"
            /\ alog' = Append(alog, [op |-> "DNS01ChallengeRecord", ok |-> FALSE, chal |-> Chal])
            /\ apc' = "loop" /\ acombo' = acombo + 1 /\ adefers' = adefers
       ELSE /\ alog' = alog \o <<[op |-> "DNS01ChallengeRecord", ok |-> TRUE, chal |-> Chal],
                                  [op |-> "ModifyTXTRecord", ok |-> modifyOK, chal |-> Chal,
                                   node |-> challengeNode, ttl |-> challengeTTL]>>
            /\ IF modifyOK
               THEN /\ aerr' = ""
                    /\ adefers' = adefers + 1
                    /\ apc' = "accept" /\ acombo' = acombo
               ELSE /\ aerr' = "ModifyTXTRecord"
                    /\ adefers' = adefers
                    /\ apc' = "loop" /\ acombo' = acombo + 1
    /\ UNCHANGED <<authz, combos, accepted, aret>>

\* err = fulfillChallenge(ctx, client, chal, dns, zone), the calls of which
\* succeed or fail; if it returns nil ForgetTXTRecord is deferred.
Fulfill(recordOK, modifyOK) ==
    /\ apc = "fulfill"
    /\ FulfillSteps(recordOK, modifyOK)
    /\ UNCHANGED restA

\* Variant: the loop goes on to the next combination after Accept
\* succeeded.
AcceptNoBreak(ok) ==
    /\ apc = "accept"
    /\ alog' = Append(alog, [op |-> "Accept", ok |-> ok, chal |-> Chal])
    /\ IF ok
       THEN accepted' = Chal /\ aerr' = ""
       ELSE accepted' = 0 /\ aerr' = "Accept"
    /\ apc' = "loop"
    /\ acombo' = acombo + 1
    /\ UNCHANGED <<restA, authz, combos, adefers, aret>>

\* accepted, err = client.Accept(ctx, chal); the loop ends if it succeeds.
Accept(ok) ==
    /\ apc = "accept"
    /\ alog' = Append(alog, [op |-> "Accept", ok |-> ok, chal |-> Chal])
    /\ IF ok
       THEN accepted' = Chal /\ aerr' = "" /\ apc' = "after" /\ acombo' = acombo
       ELSE accepted' = 0 /\ aerr' = "Accept" /\ apc' = "loop" /\ acombo' = acombo + 1
    /\ UNCHANGED <<restA, authz, combos, adefers, aret>>

\* After the loop: without an accepted challenge the error is returned.
AfterLoop ==
    /\ apc = "after"
    /\ IF accepted = 0
       THEN /\ aerr' = (IF aerr = "" THEN ErrNoCombinations ELSE aerr)
            /\ aret' = aerr'
            /\ apc' = "defers"
       ELSE /\ apc' = "wait"
            /\ UNCHANGED <<aerr, aret>>
    /\ UNCHANGED <<restA, authz, combos, acombo, accepted, adefers, alog>>

\* return client.WaitAuthorization(ctx, authz.URI)
WaitAuthorization(ok) ==
    /\ apc = "wait"
    /\ alog' = Append(alog, [op |-> "WaitAuthorization", ok |-> ok])
    /\ aret' = (IF ok THEN "" ELSE "WaitAuthorization")
    /\ apc' = "defers"
    /\ UNCHANGED <<restA, authz, combos, acombo, aerr, accepted, adefers>>

\* Variant: acquireAuthorization returns without running what it deferred.
RunDeferredNone(ok) ==
    /\ apc = "defers"
    /\ ok
    /\ apc' = "done"
    /\ adefers' = 0
    /\ UNCHANGED <<restA, authz, combos, acombo, aerr, accepted, aret, alog>>

\* acquireAuthorization returns: a deferred dns.ForgetTXTRecord(zone,
\* challengeNode) runs, its result dropped, or none is left.
RunDeferred(ok) ==
    /\ apc = "defers"
    /\ IF adefers > 0
       THEN /\ alog' = Append(alog, [op |-> "ForgetTXTRecord", ok |-> ok, node |-> challengeNode])
            /\ adefers' = adefers - 1
            /\ apc' = apc
       ELSE /\ ok
            /\ apc' = "done"
            /\ UNCHANGED <<alog, adefers>>
    /\ UNCHANGED <<restA, authz, combos, acombo, aerr, accepted, aret>>

AcmeNext ==
    \/ \E a \in Authorizations, ok \in BOOLEAN : VerifyCall(a, ok)
    \/ LoopStep
    \/ \E recordOK \in BOOLEAN, modifyOK \in BOOLEAN : Fulfill(recordOK, modifyOK)
    \/ \E ok \in BOOLEAN : Accept(ok)
    \/ AfterLoop
    \/ \E ok \in BOOLEAN : WaitAuthorization(ok)
    \/ \E ok \in BOOLEAN : RunDeferred(ok)

AcmeSpec == Init /\ [][AcmeNext]_vars

\* ------------------------------------------- the certificate manager

\* The server names of the TLS hellos: the first domain, two names below
\* it and a name in no zone.
ManagerHosts == {<<"a">>, <<"w", ".", "a">>, <<"x", ".", "a">>, <<"c">>}

\* The records zone "a." is given before the manager is used, and the
\* record another goroutine removes while a certificate is being issued.
ManagerSetupInputs ==
    {[zone |-> 1, node |-> NodeW, r |-> RecA],
     [zone |-> 1, node |-> Wildcard, r |-> RecA]}

ManagerChangeInputs ==
    {[zoneName |-> ZoneDomains[1], node |-> NodeW, r |-> EmptyOf(TypeA)]}

\* The authorizations the ACME server returns to the manager's client.
ManagerAuthorizations ==
    {[Status |-> "valid", Challenges |-> <<>>, Combinations |-> <<>>],
     [Status |-> "pending", Challenges |-> <<challengeType>>, Combinations |-> <<>>],
     [Status |-> "pending", Challenges |-> <<"http-01">>, Combinations |-> <<>>],
     [Status |-> "pending", Challenges |-> <<challengeType, challengeType>>,
      Combinations |-> << <<0>>, <<1>> >>]}

\* The node of the challenge record as a node name (it has no dot).
ChallengeNodeName == <<challengeNode>>

\* Variant: the server name is resolved as it is.
HostNameBare(host) == host

\* host+"." and serverName+"."
HostName(host) == host \o <<".">>

\* GetCertificate(hello): the manager asks hostPolicy(ctx, host), which
\* returns the error of ResolveZone; a certificate is obtained, and
\* verify called, only for a host the policy accepts.
GetCertificate(host) ==
    /\ ~panicked
    /\ mgr.pc = "idle"
    /\ mgr.ret = "none"
    /\ CanRLock
    /\ LET err == ResolveZone(HostName(host)).err
       IN  mgr' = [mgr EXCEPT !.host = host, !.policy = err,
                              !.pc = IF err = "" THEN "issue" ELSE "done",
                              !.ret = IF err = "" THEN "none" ELSE "policy"]
    /\ UNCHANGED <<cvars, wvars, rvars, hvars, svars, mvars, pvars, lvars, avars, clock, matched>>

\* verify(ctx, client, serverName) up to the call of acmedns.Verify: the
\* body of "if err != nil" is empty, so Verify is called with whatever
\* ResolveZone returned.
ManagerVerify ==
    /\ ~panicked
    /\ mgr.pc = "issue"
    /\ CanRLock
    /\ LET res == ResolveZone(HostName(mgr.host))
       IN  mgr' = [mgr EXCEPT !.zone = res.domain, !.err = res.err, !.pc = "driver"]
    /\ UNCHANGED <<cvars, wvars, rvars, hvars, svars, mvars, pvars, lvars, avars, clock, matched>>

\* fulfillChallenge reaches dns.ModifyTXTRecord(ctx, zone, challengeNode,
\* []string{value}, challengeTTL): the driver's goroutine (writer 1) enters
\* ModifyRecord of the container.
InstallCall ==
    /\ ~panicked
    /\ apc = "fulfill"
    /\ authz.Challenges[Chal] = challengeType
    /\ wpc[1] = "idle"
    /\ calls < MaxCalls
    /\ calls' = calls + 1
    /\ wpc' = [wpc EXCEPT ![1] = "lock"]
    /\ wargs' = [wargs EXCEPT ![1] = [zoneName |-> mgr.zone, node |-> ChallengeNodeName,
                                      r |-> TXT(<<"x">>)]]
    /\ wret' = [wret EXCEPT ![1] = "none"]
    /\ apc' = "install"
    /\ UNCHANGED <<cvars, wready, ctxDone, rvars, hvars, svars, mvars, pvars, lvars, nvars>>
    /\ UNCHANGED <<authz, combos, acombo, aerr, accepted, adefers, aret, alog>>

\* ModifyTXTRecord has returned to fulfillChallenge, and that to the loop.
InstallReturn ==
    /\ apc = "install"
    /\ wpc[1] = "idle"
    /\ FulfillSteps(TRUE, wret[1] = "nil")
    /\ UNCHANGED restA

\* A deferred dns.ForgetTXTRecord(zone, challengeNode) runs on the
\* container: the empty TXT record is applied to the node of the zone, if
\* the zone is known, and the call returns nil without waiting.
ForgetTXTRecord ==
    /\ ~panicked
    /\ apc = "defers"
    /\ adefers > 0
    /\ CanLock
    /\ LET target == TargetZone(mgr.zone)
           sc == scheduleChange(target)
       IN  IF target # 0
           THEN /\ Nodes' = [Nodes EXCEPT ![target] = modifyRecord(@, ChallengeNodeName, TXT(<<>>))]
                /\ changeReady' = sc.changeReady
                /\ changeZones' = sc.changeZones
                /\ chans' = sc.chans
                /\ timers' = sc.timers
                /\ panicked' = sc.panicked
                /\ mutexW' = sc.panicked
                /\ hTouched' = hTouched \cup {target}
           ELSE UNCHANGED <<Nodes, changeReady, changeZones, chans, timers, panicked, mutexW,
                            hTouched>>
    /\ alog' = Append(alog, [op |-> "ForgetTXTRecord", ok |-> TRUE, node |-> challengeNode])
    /\ adefers' = adefers - 1
    /\ UNCHANGED <<serial, mutexR, closed, applyWait, applyIn, wvars, rvars,
                   serial0, hApplied, hLast, wmod, hRet, hReadMax, rafter>>
    /\ UNCHANGED <<svars, mvars, pvars, lvars, nvars>>
    /\ UNCHANGED <<authz, apc, combos, acombo, aerr, accepted, aret>>

\* acmedns.Verify has returned to verify, and that to the manager.
ManagerReturn ==
    /\ mgr.pc = "driver"
    /\ apc = "done"
    /\ mgr' = [mgr EXCEPT !.pc = "done", !.ret = aret]
    /\ UNCHANGED <<cvars, wvars, rvars, hvars, svars, mvars, pvars, lvars, avars, clock, matched>>

\* One TLS hello on a container that another goroutine modifies.
ManagerNext ==
    \/ \E a \in ManagerSetupInputs : mgr.pc = "idle" /\ mgr.ret = "none" /\ SetupZoneOf(a.zone, a.node, a.r)
    \/ \E h \in ManagerHosts : GetCertificate(h)
    \/ \E a \in ManagerChangeInputs : mgr.pc = "issue" /\ calls = 0 /\ CallModifyRecord(2, a)
    \/ ManagerVerify
    \/ \E a \in ManagerAuthorizations, ok \in BOOLEAN : mgr.pc = "driver" /\ VerifyCall(a, ok)
    \/ LoopStep
    \/ Fulfill(FALSE, FALSE)
    \/ InstallCall
    \/ \E w \in Writers : ModifyRecordLock(w)
    \/ \E w \in Writers : ModifyRecordLocked(w)
    \/ \E w \in Writers : SelectReady(w)
    \/ \E w \in Writers : SelectCtxDone(w)
    \/ \E w \in Writers : Cancel(w)
    \/ TimerExpires
    \/ ApplyChangesLock
    \/ ApplyChangesLocked
    \/ InstallReturn
    \/ \E ok \in BOOLEAN : Accept(ok)
    \/ AfterLoop
    \/ \E ok \in BOOLEAN : WaitAuthorization(ok)
    \/ ForgetTXTRecord
    \/ adefers = 0 /\ RunDeferred(TRUE)
    \/ ManagerReturn

ManagerSpec == Init /\ [][ManagerNext]_vars

\* --------------------------------------------- matchResource on its own

\* The names matchResource is called with: every string of up to
\* MaxNameLen characters over two letters, the dot and the apex sign.
NameAlphabet == {"a", "b", ".", "@"}

MatchNames == UNION {[1..n -> NameAlphabet] : n \in 0..MaxNameLen}

\* z.matchResource(name) on zone z.
CallMatchResource(z, name) ==
    /\ ~matched.called
    /\ matched' = [called |-> TRUE, domain |-> ZoneDomains[z], name |-> name,
                   node |-> matchResource(ZoneDomains[z], name).node,
                   ok |-> matchResource(ZoneDomains[z], name).ok]
    /\ UNCHANGED <<cvars, wvars, rvars, hvars, svars, mvars, pvars, lvars, avars, clock, mgr>>

MatchNext == \E z \in ZoneIds, name \in MatchNames : CallMatchResource(z, name)

MatchSpec == Init /\ [][MatchNext]_vars

\* -------------------------------------------------------- Init and the clock

SerialEpoch == 1500000000

\* An int64 is the pair <<hi, lo>> with hi * 65536 + lo its value, lo in
\* 0..65535 and hi any integer.
Wide(n) == <<n \div Half, n % Half>>

Sub64(a, b) ==
    IF a[2] - b[2] < 0
    THEN <<a[1] - b[1] - 1, a[2] - b[2] + Half>>
    ELSE <<a[1] - b[1], a[2] - b[2]>>

\* Variant: the serial is converted without the check against MaxUint32.
TimeSerialTruncates(unix) ==
    LET n == Sub64(unix, Wide(SerialEpoch))
    IN  [panic |-> n[1] < 0 \/ n = <<0, 0>>,
         serial |-> <<n[1] % Half, n[2]>>]

\* TimeSerial(t) for t.Unix() = unix: n := unix - SerialEpoch; it panics
\* when n <= 0 or n > math.MaxUint32, else returns uint32(n).
TimeSerial(unix) ==
    LET n == Sub64(unix, Wide(SerialEpoch))
    IN  [panic |-> (n[1] < 0 \/ n = <<0, 0>>) \/ n[1] >= Half,
         serial |-> <<n[1] % Half, n[2]>>]

\* The times at which Init reads the clock: up to MaxSkew seconds before
\* and after the epoch, and before and after the epoch plus 2^32 seconds.
Times == {[called |-> TRUE, base |-> b, skew |-> d] :
            b \in {"epoch", "wrap"}, d \in (0 - MaxSkew)..MaxSkew}

\* t.Unix()
Unix(t) ==
    IF t.base = "epoch"
    THEN Wide(SerialEpoch + t.skew)
    ELSE <<Wide(SerialEpoch + t.skew)[1] + Half, Wide(SerialEpoch + t.skew)[2]>>

\* Init(zones...) when time.Now() is t: InitWithSerial(TimeSerial(t),
\* zones...), or the panic of TimeSerial.
InitAt(t) ==
    /\ ~clock.called
    /\ ~panicked
    /\ clock' = t
    /\ IF TimeSerial(Unix(t)).panic
       THEN /\ panicked' = TRUE
            /\ UNCHANGED <<serial, serial0>>
       ELSE /\ serial' = [z \in ZoneIds |-> TimeSerial(Unix(t)).serial]
            /\ serial0' = TimeSerial(Unix(t)).serial
            /\ panicked' = panicked
    /\ UNCHANGED <<Nodes, mutexW, mutexR, changeReady, changeZones, chans, closed, timers,
                   applyWait, applyIn, wvars, rvars, hTouched, hApplied, hLast, wmod, hRet,
                   hReadMax, rafter, svars, mvars, pvars, lvars, avars, matched, mgr>>

ClockNext == \E t \in Times : InitAt(t)

ClockSpec == Init /\ [][ClockNext]_vars

\* ---------------------------------------------------------------- memory

\* The records of the first zone as slices over arrays: heap[a] is the
\* array at address a, a Records slice is the address of an array of
\* record structs, and the Value of an A or AAAA record and the Values of
\* a TXT record are the address of an array (0 for nil); the Value of an NS
\* record is a string, kept in the struct.

\* The records behind the slice at address a, as values.
HeapRecords(a) ==
    [i \in 1..Len(heap[a]) |->
        [type |-> heap[a][i].type,
         value |-> IF heap[a][i].type = TypeNS THEN heap[a][i].value
                   ELSE IF heap[a][i].value = 0 THEN <<>>
                   ELSE heap[heap[a][i].value],
         ttl |-> heap[a][i].ttl]]

\* Zone.Nodes of the first zone as the memory has it.
HeapNodes == [n \in DOMAIN store |-> HeapRecords(store[n])]

\* Records.DeepCopy of the slice rs over heap h, the copies made so far in
\* done: every record's DeepCopy appends its Value to a nil slice (a new
\* array, nil when there is nothing to append), then the new Records array.
RECURSIVE DeepCopyInto(_, _, _)
DeepCopyInto(h, rs, done) ==
    IF rs = <<>>
    THEN [heap |-> Append(h, done), addr |-> Len(h) + 1]
    ELSE LET r == Head(rs)
         IN  IF r.type = TypeNS
             THEN DeepCopyInto(h, Tail(rs), Append(done, r))
             ELSE IF r.value = 0 \/ h[r.value] = <<>>
                  THEN DeepCopyInto(h, Tail(rs), Append(done, [r EXCEPT !.value = 0]))
                  ELSE DeepCopyInto(Append(h, h[r.value]), Tail(rs),
                                    Append(done, [r EXCEPT !.value = Len(h) + 1]))

\* Variant: the Records array is new, the records keep their Value slices.
HeapShallowCopy(h, a) == [heap |-> Append(h, h[a]), addr |-> Len(h) + 1]

\* rs.DeepCopy() of the slice at address a: the heap and the copy's address.
HeapDeepCopy(h, a) == DeepCopyInto(h, h[a], <<>>)

\* Zone.transfer over heap h: the nodes named in names, in that order,
\* each with the DeepCopy of its records.
RECURSIVE TransferInto(_, _, _)
TransferInto(h, names, done) ==
    IF names = <<>>
    THEN [heap |-> h, nodes |-> done]
    ELSE LET c == HeapDeepCopy(h, store[Head(names)])
         IN  TransferInto(c.heap, Tail(names),
                          Append(done, [name |-> Head(names), records |-> c.addr]))

\* The orders in which Zone.transfer may visit the nodes.
TransferOrders ==
    LET first == IF Apex \in DOMAIN store THEN <<Apex>> ELSE <<>>
        last == IF Wildcard \in DOMAIN store THEN <<Wildcard>> ELSE <<>>
        others == DOMAIN store \ {Apex, Wildcard}
    IN  {first \o o \o last : o \in Orderings(others)}

\* The records given to ModifyRecord on the first zone, and the names read.
HeapModifyInputs ==
    {[node |-> Apex, r |-> TXT(<<"x", "y">>)], [node |-> Apex, r |-> EmptyOf(TypeA)],
     [node |-> Wildcard, r |-> RecNS], [node |-> NodeW, r |-> RecAAAA]}

HeapReadNames == {ZoneDomains[1], HostW}

\* targetZone.modifyRecord(node, r) on the first zone, in memory: r's Value
\* is the caller's array; a found record is overwritten in place, a new one
\* is appended (to a new array), a removal shifts the array in place.
HeapModifyRecord(node, r) ==
    LET a == IF node \in DOMAIN store THEN store[node] ELSE 0
        rs == IF a = 0 THEN <<>> ELSE heap[a]
        i == FirstOfType(rs, r.type)
        h == IF r.type = TypeNS THEN heap ELSE Append(heap, r.value)
        x == [type |-> r.type, value |-> IF r.type = TypeNS THEN r.value ELSE Len(h),
              ttl |-> r.ttl]
    IN  /\ Len(heap) + 2 <= MaxHeap
        /\ modifyRecord(Nodes[1], node, r) # Nodes[1]
        /\ Nodes' = [Nodes EXCEPT ![1] = modifyRecord(@, node, r)]
        /\ IF ~Empty(r)
           THEN IF i # 0
                THEN heap' = [h EXCEPT ![a][i] = x] /\ store' = store
                ELSE /\ heap' = Append(h, Append(rs, x))
                     /\ store' = Put(store, node, Len(h) + 1)
           ELSE IF Len(RemoveAt(rs, i)) > 0
                THEN heap' = [heap EXCEPT ![a] = RemoveAt(rs, i)] /\ store' = store
                ELSE heap' = heap /\ store' = Delete(store, node)
        /\ UNCHANGED <<serial, mutexW, mutexR, changeReady, changeZones, chans, closed, timers,
                       applyWait, applyIn, panicked, wvars, rvars, hvars, svars, xvars, got, copies>>

\* ResolveResource(name), for a name of the first zone, in memory: the
\* caller gets the node with the DeepCopy of its records.
HeapResolveResource(name) ==
    LET node == matchResource(ZoneDomains[1], name).node
        a == IF node \in DOMAIN store THEN store[node]
             ELSE IF node # Apex /\ Wildcard \in DOMAIN store THEN store[Wildcard]
             ELSE 0
        c == HeapDeepCopy(heap, a)
    IN  /\ copies < MaxCopies
        /\ FirstMatch(name) = 1
        /\ IF a # 0
           THEN /\ Len(c.heap) <= MaxHeap
                /\ heap' = c.heap
                /\ got' = <<[name |-> node, records |-> c.addr]>>
           ELSE /\ heap' = heap
                /\ got' = <<[name |-> node, records |-> 0]>>
        /\ copies' = copies + 1
        /\ UNCHANGED <<cvars, wvars, rvars, hvars, svars, xvars, store>>

\* TransferZone of the first zone, in memory.
HeapTransferZone ==
    /\ copies < MaxCopies
    /\ \E names \in TransferOrders :
        LET t == TransferInto(heap, names, <<>>)
        IN  /\ Len(t.heap) <= MaxHeap
            /\ heap' = t.heap
            /\ got' = t.nodes
    /\ copies' = copies + 1
    /\ UNCHANGED <<cvars, wvars, rvars, hvars, svars, xvars, store>>

\* What the caller can write through the result it holds: an element of a
\* record list, a byte of an IP, a string of a TXT record.
CallerWrites ==
    LET lists == {got[k].records : k \in 1..Len(got)} \ {0}
    IN  {[addr |-> a, index |-> j, val |-> [type |-> TypeTXT, value |-> 0, ttl |-> 9]] :
            a \in lists, j \in 1..2}
        \cup UNION {{[addr |-> heap[a][i].value, index |-> j,
                       val |-> IF heap[a][i].type = TypeTXT THEN "z" ELSE 0] :
                        i \in {k \in 1..Len(heap[a]) :
                                    heap[a][k].type # TypeNS /\ heap[a][k].value # 0},
                        j \in 1..2} : a \in lists}

\* The caller mutates the record set it holds.
CallerMutates(addr, index) ==
    /\ \E w \in CallerWrites :
        /\ w.addr = addr /\ w.index = index
        /\ index <= Len(heap[addr])
        /\ heap[addr][index] # w.val
        /\ heap' = [heap EXCEPT ![addr][index] = w.val]
    /\ UNCHANGED <<cvars, wvars, rvars, hvars, svars, xvars, store, got, copies>>

\* The first zone is modified and read, and the caller mutates what it read.
HeapNext ==
    \/ \E a \in HeapModifyInputs : HeapModifyRecord(a.node, a.r)
    \/ \E n \in HeapReadNames : HeapResolveResource(n)
    \/ HeapTransferZone
    \/ \E addr \in 1..MaxHeap, index \in 1..2 : CallerMutates(addr, index)

HeapSpec == Init /\ [][HeapNext]_vars

\* ------------------------------------------------------------ properties

KnownZone(name) == \E z \in ZoneIds : ZoneDomains[z] = name

\* Steps of writer w: its call returns nil, returns ctx.Err(), leaves the
\* critical section.
ReturnsNil(w) == wpc[w] = "select" /\ wpc'[w] = "idle" /\ wret'[w] = "nil"

ReturnsCtxErr(w) == wpc[w] = "select" /\ wpc'[w] = "idle" /\ wret'[w] = "ctxErr"

LeavesLocked(w) == wpc[w] = "locked" /\ wpc'[w] # "locked"

\* A step in which applyChanges runs.
Applies == applyIn' < applyIn

\* s advanced n times by serial++.
RECURSIVE IncN(_, _)
IncN(s, n) == IF n = 0 THEN s ELSE IncN(IncSerial(s), n - 1)

\* C1: at every moment each zone's serial is the initial serial plus the
\* number of applied windows in which a ModifyRecord call modified the zone.
C1_SerialCountsWindows == \A z \in ZoneIds : serial[z] = Plus(serial0, hApplied[z])

\* C3: when ModifyRecord returns nil, the channel of the call's window is
\* closed and the target zone's serial is strictly greater than it was
\* when the call modified the zone.
C3_NilAfterAdvance ==
    [][\A w \in Writers :
        ReturnsNil(w) =>
            /\ wready[w] \in closed
            /\ Lt32(wmod[w].serial, serial[FindZone(wargs[w].zoneName)])]_vars

\* C4: the serials observed when successive successful calls on a zone
\* return never decrease, and every applied window that modified a zone
\* strictly increases the zone's serial.
C4_MonotoneSerials ==
    [][/\ \A w \in Writers :
            ReturnsNil(w) =>
                LET z == FindZone(wargs[w].zoneName)
                IN  hRet[z].returned => Le32(hRet[z].at, serial[z])
       /\ Applies => \A z \in hTouched : Lt32(serial[z], serial'[z])]_vars

\* C10: ResolveResource and TransferZone report serial 0 if and only if no
\* zone matched the name.
C10_ZeroSerialIffUnknown ==
    \A r \in Readers :
        rres[r].op \in {"ResolveResource", "TransferZone"} =>
            (rres[r].serial = Zero32 <=> rres[r].zone = 0)

\* C5: when ModifyRecord returns the context's error, the step changes
\* neither the zones nor the pending window; as long as modifications
\* wait for a window (those of cancelled calls included) their zones are
\* registered in it and exactly one apply callback is pending; and the
\* callback increments the serial of every such zone and closes the
\* channel every waiting call holds.
C5_CancelKeepsWindow ==
    /\ [](hTouched # {} =>
            /\ changeReady # 0
            /\ ~changeZones.nil
            /\ hTouched \subseteq changeZones.set
            /\ timers + applyWait + applyIn = 1)
    /\ [][/\ \A w \in Writers :
                ReturnsCtxErr(w) =>
                    UNCHANGED <<Nodes, serial, changeReady, changeZones, chans, closed,
                                timers, applyWait, applyIn, hTouched>>
          /\ Applies =>
                /\ \A z \in hTouched : serial'[z] = IncSerial(serial[z])
                /\ \A v \in Writers : wpc[v] = "select" => wready[v] \in closed']_vars

\* A call returned the context's error, its modification is in the zone
\* and its window is still pending with another call waiting in it.
C5_Witness ==
    \E w, v \in Writers :
        /\ wpc[w] = "idle" /\ wret[w] = "ctxErr"
        /\ hTouched = {1}
        /\ hLast[1].r = TXT(<<"x">>)
        /\ Get(Nodes[1], NodeW) = <<TXT(<<"x">>)>>
        /\ wpc[v] = "select" /\ wargs[v].zoneName = ZoneDomains[2]
        /\ changeReady # 0

\* C6: a ModifyRecord call on a name that is no zone's Domain leaves the
\* critical section returning the not-exist error, without waiting, and
\* changes no node, no serial, no window and no timer.
C6_UnknownZoneNoEffect ==
    [][\A w \in Writers :
        (LeavesLocked(w) /\ ~KnownZone(wargs[w].zoneName)) =>
            /\ wpc'[w] = "idle"
            /\ wret'[w] = "notExist"
            /\ UNCHANGED <<Nodes, serial, changeReady, changeZones, chans, closed,
                           timers, applyWait, applyIn>>]_vars

\* A call on an unknown zone returned not-exist while a window was pending.
C6_Witness ==
    \E w \in Writers :
        /\ wpc[w] = "idle" /\ wret[w] = "notExist"
        /\ changeReady # 0
        /\ timers = 1

\* C7: every ModifyRecord call on an existing zone returns nil unless its
\* context is cancelled.
C7_CallsReturn ==
    \A w \in Writers :
        (wpc[w] = "lock" /\ KnownZone(wargs[w].zoneName))
            ~> ((wpc[w] = "idle" /\ wret[w] = "nil") \/ ctxDone[w])

\* A call holds the lock, joining the window of a waiting call, after the
\* timer expired and before applyChanges took the lock.
C7_Witness ==
    \E w, v \in Writers :
        /\ w # v
        /\ wpc[w] = "select" /\ wpc[v] = "locked"
        /\ applyWait = 1 /\ timers = 0
        /\ changeReady # 0

\* C8: at most one writer (ModifyRecord's critical section or
\* applyChanges) is inside the mutex at a time and no reader is inside
\* with it; node maps and serials change only in a writer's critical
\* section, and a read produces its result only inside its read lock.
WritersInside == Cardinality({w \in Writers : wpc[w] = "locked"}) + applyIn

ReadersInside == Cardinality({r \in Readers : rpc[r] = "rlocked"})

C9_AtMostOnePerType ==
    \A z \in ZoneIds : \A n \in DOMAIN Nodes[z] :
        /\ \A i, j \in 1..Len(Nodes[z][n]) :
                i # j => Nodes[z][n][i].type # Nodes[z][n][j].type
        /\ \A i \in 1..Len(Nodes[z][n]) :
                Nodes[z][n][i].type \in {TypeA, TypeNS, TypeTXT, TypeAAAA}

\* Node "w" holds a record of each of the four types, after insertions,
\* replacements and removals.
C9_Witness ==
    /\ NodeW \in DOMAIN Nodes[1]
    /\ Len(Nodes[1][NodeW]) = 4
    /\ Nodes[1][NodeW][1] = TXT(<<"y">>)
    /\ Nodes[1][NodeW][4] = RecA
    /\ Wildcard \in DOMAIN Nodes[1]
    /\ Apex \notin DOMAIN Nodes[1]

\* The TXT records a read result shows for a node of the zone it read.
ShownTXT(res, node) ==
    IF res.op = "TransferZone"
    THEN {res.nodes[i].records[j] :
            i \in {k \in 1..Len(res.nodes) : res.nodes[k].name = node},
            j \in {k \in 1..4 : \E i \in 1..Len(res.nodes) :
                        /\ res.nodes[i].name = node
                        /\ k <= Len(res.nodes[i].records)
                        /\ res.nodes[i].records[k].type = TypeTXT}}
    ELSE {res.records[j] : j \in {k \in 1..Len(res.records) : res.records[k].type = TypeTXT}}

\* The result shows what the call with these arguments wrote.
Shows(res, args) ==
    (res.op = "TransferZone" \/ res.node = args.node) =>
        ShownTXT(res, args.node) = IF Empty(args.r) THEN {} ELSE {args.r}

\* A step in which reader r's call returns.
ReadReturns(r) == rpc[r] = "rlocked" /\ rpc'[r] = "idle"

\* The read that returns in this step began after a ModifyRecord call on
\* the zone it reads had returned nil.
ReadsAfterReturn(r) ==
    /\ ReadReturns(r)
    /\ rres'[r].op \in {"ResolveResource", "TransferZone"}
    /\ rres'[r].zone # 0
    /\ rafter[r][rres'[r].zone].returned

\* C2 as stated: a read that begins after a ModifyTXTRecord call on its
\* zone returned nil observes the new record set (the record written by
\* the last modifyRecord on the zone) and a serial strictly greater than
\* every serial observed by a read that completed before the call returned.
C2_ReadAfterWriteAsStated ==
    [][\A r \in Readers :
        ReadsAfterReturn(r) =>
            LET res == rres'[r]
                ret == rafter[r][res.zone]
            IN  /\ Shows(res, hLast[res.zone])
                /\ Lt32(ret.seen, res.serial)]_vars

\* C2 amended: such a read observes the new record set and a serial that
\* applyChanges has advanced at least once, by serial++ on the uint32,
\* since the call modified the zone.
C2_ReadAfterWrite ==
    [][\A r \in Readers :
        ReadsAfterReturn(r) =>
            LET res == rres'[r]
                ret == rafter[r][res.zone]
            IN  /\ Shows(res, hLast[res.zone])
                /\ res.incs > ret.mod.incs
                /\ res.serial = IncN(ret.mod.serial, res.incs - ret.mod.incs)]_vars

\* A TransferZone that began after a call installing TXT "x" on node "w"
\* had returned nil shows that record.
C2_Witness ==
    \E r \in Readers :
        /\ rpc[r] = "idle"
        /\ rres[r].op = "TransferZone"
        /\ rres[r].zone = 1
        /\ rafter[r][1].returned
        /\ rafter[r][1].args.r = TXT(<<"x">>)
        /\ ShownTXT(rres[r], NodeW) = {TXT(<<"x">>)}

\* ------------------------------------------------- properties of the reads

\* The ResolveResource calls the last request made, with their results.
ResolveCalls == {hCalls[i] : i \in {k \in 1..Len(hCalls) : hCalls[k].op = "ResolveResource"}}

\* The zones of the container, in order, that name falls into: name is
\* the zone's domain or one label in front of it.
MatchingZones(name) ==
    {z \in ZoneIds :
        \/ name = ZoneDomains[z]
        \/ /\ HasSuffix(name, <<".">> \o ZoneDomains[z])
           /\ ~Contains(SubSeq(name, 1, Len(name) - 1 - Len(ZoneDomains[z])), ".")}

FirstZone(name) == CHOOSE z \in MatchingZones(name) : \A y \in MatchingZones(name) : z <= y

\* The node of zone z that name denotes.
NodeOf(z, name) ==
    IF name = ZoneDomains[z] THEN Apex
    ELSE SubSeq(name, 1, Len(name) - 1 - Len(ZoneDomains[z]))

\* Node n of zone z resolves: it is defined, or it is not the apex and
\* the zone has a wildcard.
Resolves(z, n) ==
    n \in DOMAIN Nodes[z] \/ (n # Apex /\ Wildcard \in DOMAIN Nodes[z])

Resolved(z, n) == IF n \in DOMAIN Nodes[z] THEN Nodes[z][n] ELSE Nodes[z][Wildcard]

\* What C11 says of every call but the one whose node does not resolve.
ResolveResourceElse(t) ==
    IF MatchingZones(t.name) = {}
    THEN t.node = Nil /\ t.records = Nil /\ t.serial = Zero32
    ELSE LET z == FirstZone(t.name)
         IN  /\ t.zone = z
             /\ t.serial = serial[z]
             /\ Resolves(z, NodeOf(z, t.name)) =>
                    /\ t.node = NodeOf(z, t.name)
                    /\ t.records = Resolved(z, NodeOf(z, t.name))

OneQuestion == questMsg.handled /\ Len(questMsg.Question) = 1 /\ questMsg.Question[1].Qclass = ClassINET

TheQuestion == questMsg.Question[1]

\* The name asked for, as the resolver gets it.
AskedName == ToLower(TheQuestion.Name)

\* The last request was a non-transfer query for a name that lies in a
\* zone where its node is not defined and that has no wildcard.
UndefinedNodeQuery ==
    /\ OneQuestion
    /\ TheQuestion.Qtype \notin {TypeAXFR, TypeIXFR}
    /\ MatchingZones(AskedName) # {}
    /\ LET z == FirstZone(AskedName)
       IN  /\ NodeOf(z, AskedName) \notin DOMAIN Nodes[z]
           /\ Wildcard \notin DOMAIN Nodes[z]

\* The authority section is one SOA record with a serial of at least 1.
AuthoritySOA ==
    /\ Len(replyMsg.Ns) = 1
    /\ replyMsg.Ns[1].Rrtype = TypeSOA
    /\ Le32(One32, replyMsg.Ns[1].Data.Serial)

FromSOAConfig(rr) ==
    \/ rr.Rrtype = TypeNS /\ rr.Data = soa.NS
    \/ rr.Rrtype = TypeSOA /\ rr.Data.Ns = soa.NS /\ Le32(One32, rr.Data.Serial)

SomeNodes == {Apex, Wildcard, NodeW, NodeV, <<"b">>}

\* C13: resolveNode returns the records stored under the exact node name
\* when there are some, otherwise the wildcard's unless the node is the
\* apex; so ResolveResource of a zone's own domain name returns the apex's
\* records or none, never the wildcard's.
C13_WildcardNotForApex ==
    /\ \A z \in ZoneIds : \A n \in SomeNodes :
            resolveNode(Nodes[z], n) =
                IF n \in DOMAIN Nodes[z] THEN Nodes[z][n]
                ELSE IF n # Apex /\ Wildcard \in DOMAIN Nodes[z] THEN Nodes[z][Wildcard]
                ELSE Nil
    /\ \A t \in ResolveCalls :
            (t.zone # 0 /\ t.name = ZoneDomains[t.zone]) =>
                /\ t.node = Apex
                /\ t.records = IF Apex \in DOMAIN Nodes[t.zone] THEN Nodes[t.zone][Apex] ELSE Nil

\* "a." was resolved while the zone had a wildcard and no apex node: the
\* result is the apex without records.
C13_Witness ==
    \E t \in ResolveCalls :
        /\ t.name = ZoneDomains[1]
        /\ t.node = Apex
        /\ t.records = Nil
        /\ Wildcard \in DOMAIN Nodes[1]
        /\ Apex \notin DOMAIN Nodes[1]

\* ------------------------------------------------ properties of transfers

\* The TransferZone calls the last request made, with their results.
TransferCalls == {hCalls[i] : i \in {k \in 1..Len(hCalls) : hCalls[k].op = "TransferZone"}}

\* C14: TransferZone of an existing zone returns every node of the zone
\* exactly once with its records, the apex first and the wildcard last
\* when present; for a name that is no zone's Domain it returns no nodes
\* and serial 0.
C14_TransferOrder ==
    \A t \in TransferCalls :
        IF \E z \in ZoneIds : ZoneDomains[z] = t.name
        THEN LET z == t.zone
                 n == Len(t.nodes)
             IN  /\ z # 0 /\ ZoneDomains[z] = t.name
                 /\ n = Cardinality(DOMAIN Nodes[z])
                 /\ {t.nodes[i].name : i \in 1..n} = DOMAIN Nodes[z]
                 /\ \A i \in 1..n : t.nodes[i].records = Nodes[z][t.nodes[i].name]
                 /\ Apex \in DOMAIN Nodes[z] => t.nodes[1].name = Apex
                 /\ Wildcard \in DOMAIN Nodes[z] => t.nodes[n].name = Wildcard
        ELSE t.nodes = <<>> /\ t.serial = Zero32

\* Zone "a." was transferred with its four nodes: the apex, "v", "w" and
\* the wildcard, in this order.
C14_Witness ==
    \E t \in TransferCalls :
        /\ t.zone = 1
        /\ Len(t.nodes) = 4
        /\ t.nodes[1].name = Apex
        /\ t.nodes[2].name = NodeV
        /\ t.nodes[3].name = NodeW
        /\ t.nodes[4].name = Wildcard

\* -------------------------------------------------- properties of the copies

\* A step in which the caller mutates a result: memory changes, and no
\* ModifyRecord and no read takes place.
MutationStep == heap' # heap /\ Nodes' = Nodes /\ got' = got

\* Zone.Nodes of the first zone as the memory has it after the step.
HeapNodesNext ==
    [n \in DOMAIN store' |->
        [i \in 1..Len(heap'[store'[n]]) |->
            [type |-> heap'[store'[n]][i].type,
             value |-> IF heap'[store'[n]][i].type = TypeNS THEN heap'[store'[n]][i].value
                       ELSE IF heap'[store'[n]][i].value = 0 THEN <<>>
                       ELSE heap'[heap'[store'[n]][i].value],
             ttl |-> heap'[store'[n]][i].ttl]]]

\* C15: mutating a record set returned by ResolveResource or TransferZone
\* (an element of its record list, a byte of an IP, a string of a TXT
\* record) leaves the zone's records as they were, so that ResolveResource
\* and TransferZone return afterwards what they returned before; the
\* records in memory are those ModifyRecord made.
C15_CopiesAreDeep ==
    /\ [](HeapNodes = Nodes[1])
    /\ [][MutationStep =>
            /\ HeapNodesNext = HeapNodes
            /\ transfer(HeapNodesNext) = transfer(HeapNodes)
            /\ \A n \in SomeNodes : resolveNode(HeapNodesNext, n) = resolveNode(HeapNodes, n)]_vars

\* The caller holds a transfer of the zone and has overwritten the first
\* record of the apex's list, a byte of its A record and a string of its
\* TXT record, while the zone still has them.
C15_Witness ==
    /\ Len(got) >= 2
    /\ got[1].name = Apex
    /\ got[1].records # 0
    /\ Len(heap[got[1].records]) = 2
    /\ heap[got[1].records][1].ttl = 9
    /\ heap[got[1].records][2].type = TypeTXT
    /\ heap[heap[got[1].records][2].value] = <<"z", "y">>
    /\ Nodes[1][Apex] = <<RecA, TXT(<<"x", "y">>)>>

\* -------------------------------------------------- properties of the errors

\* The resolver name the errors carry.
resolver == "acmedns/dns/dnszone"

\* newZoneError(name), newNodeError(name): an existenceError, which is a
\* net.DNSError whose IsTimeout and IsTemporary are left unset.
newZoneError(name) ==
    [Err |-> "DNS zone is unknown", Name |-> name, Server |-> resolver,
     IsTimeout |-> FALSE, IsTemporary |-> FALSE]

newNodeError(name) ==
    [Err |-> "Node not found in DNS zone", Name |-> name, Server |-> resolver,
     IsTimeout |-> FALSE, IsTemporary |-> FALSE]

\* The methods of existenceError: NotExist is its own, the others are
\* those of the DNSError it embeds.
NotExist(e) == TRUE
Timeout(e) == e.IsTimeout
Temporary(e) == e.IsTimeout \/ e.IsTemporary
ErrorText(e) ==
    <<"lookup ">> \o e.Name
        \o (IF e.Server # "" THEN <<" on ", e.Server>> ELSE <<>>) \o <<": ", e.Err>>

\* The error value of a ResolveZone result.
ErrOf(t) == IF t.err = "node" THEN newNodeError(t.name) ELSE newZoneError(t.name)

ResolveZoneCalls == {hCalls[i] : i \in {k \in 1..Len(hCalls) : hCalls[k].op = "ResolveZone"}}

\* The zones that hostname falls into and whose node for it resolves.
ZonesResolving(hostname) ==
    {z \in MatchingZones(hostname) : Resolves(z, NodeOf(z, hostname))}

\* C16: ResolveZone returns the domain of a zone (the first in container
\* order) that the hostname matches and whose node resolves, and no error;
\* when there is no such zone it returns no domain and an error whose
\* NotExist() is true, whose Temporary() and Timeout() are false and whose
\* message is not empty: the node-not-found error if some zone matched the
\* hostname, the zone-unknown error if none did. It never returns both.
C16_ResolveZoneErrors ==
    \A t \in ResolveZoneCalls :
        /\ ~(t.domain # Nil /\ t.err # "")
        /\ IF ZonesResolving(t.name) # {}
           THEN /\ t.err = ""
                /\ t.zone \in ZonesResolving(t.name)
                /\ \A y \in ZonesResolving(t.name) : t.zone <= y
                /\ t.domain = ZoneDomains[t.zone]
           ELSE /\ t.domain = Nil
                /\ t.err # ""
                /\ NotExist(ErrOf(t))
                /\ ~Temporary(ErrOf(t))
                /\ ~Timeout(ErrOf(t))
                /\ ErrorText(ErrOf(t)) # <<>>
                /\ ErrOf(t).Name = t.name
                /\ ErrOf(t) = IF MatchingZones(t.name) # {}
                              THEN newNodeError(t.name)
                              ELSE newZoneError(t.name)

\* ResolveZone was called for w.a. while zone a. had a node but neither w
\* nor a wildcard: the node-not-found error came back.
C16_Witness ==
    /\ Len(hCalls) = 1
    /\ hCalls[1].op = "ResolveZone"
    /\ hCalls[1].name = HostW
    /\ hCalls[1].err = "node"
    /\ DOMAIN Nodes[1] = {Apex}

\* ------------------------------------- properties of the unsupported queries

\* C17: a request whose question section does not hold exactly one
\* question, or whose one question is of a class other than IN, is
\* answered NOTIMP with empty answer and authority sections, and the
\* resolver is not called.
C17_NotImplemented ==
    (questMsg.handled /\ ~OneQuestion) =>
        /\ replyMsg.Rcode = RcodeNotImplemented
        /\ replyMsg.Answer = <<>>
        /\ replyMsg.Ns = <<>>
        /\ hCalls = <<>>

\* An authoritative server over a zone that has node "w" was asked for
\* A/"w.a." in class CHAOS and answered NOTIMP.
C17_Witness ==
    /\ questMsg.handled
    /\ Len(questMsg.Question) = 1
    /\ TheQuestion = Question(HostW, TypeA, ClassCHAOS)
    /\ NodeW \in DOMAIN Nodes[1]
    /\ authority(soa)
    /\ replyMsg.Rcode = RcodeNotImplemented

\* ------------------------------------------ properties of the empty answers

\* The authority section of the last reply holds an SOA record.
SOAInAuthority == \E i \in 1..Len(replyMsg.Ns) : replyMsg.Ns[i].Rrtype = TypeSOA

\* C18 as stated: every reply of a server with SOA authority whose answer
\* section is empty has an SOA record in its authority section, whatever
\* the request and the rcode.
C18_EmptyAnswerSOAAsStated ==
    (questMsg.handled /\ authority(soa) /\ replyMsg.Answer = <<>>) => SOAInAuthority

\* C18 amended: every reply of a server with SOA authority whose answer
\* section is empty and whose rcode is not NOTIMP has an SOA record in its
\* authority section.
C18_EmptyAnswerSOA ==
    (/\ questMsg.handled
     /\ authority(soa)
     /\ replyMsg.Answer = <<>>
     /\ replyMsg.Rcode # RcodeNotImplemented) => SOAInAuthority

\* An authoritative server was asked for MX/"w.a." while node "w" had
\* records, none of them MX: NOERROR, no answer, the SOA in authority.
C18_Witness ==
    /\ OneQuestion
    /\ TheQuestion = Question(HostW, TypeMX, ClassINET)
    /\ NodeW \in DOMAIN Nodes[1]
    /\ authority(soa)
    /\ replyMsg.Rcode = RcodeSuccess
    /\ replyMsg.Answer = <<>>
    /\ SOAInAuthority

\* ------------------------------------------------ properties of the transfers

\* The last request was an AXFR or IXFR, to a server with SOA authority,
\* of a zone of the container that has at least one node.
TransferOfZone ==
    /\ OneQuestion
    /\ transferReq(TheQuestion)
    /\ authority(soa)
    /\ FindZone(AskedName) # 0
    /\ DOMAIN Nodes[FindZone(AskedName)] # {}

\* C19: the answer section of an AXFR or IXFR reply of an authoritative
\* server for a zone with at least one node begins with an SOA record and
\* ends with an SOA record, both with the serial that the TransferZone
\* call of that request returned for the zone.
C19_TransferSOASerial ==
    TransferOfZone =>
        /\ Len(hCalls) = 1
        /\ hCalls[1].op = "TransferZone"
        /\ Len(replyMsg.Answer) >= 2
        /\ replyMsg.Answer[1].Rrtype = TypeSOA
        /\ replyMsg.Answer[Len(replyMsg.Answer)].Rrtype = TypeSOA
        /\ replyMsg.Answer[1].Data.Serial = hCalls[1].serial
        /\ replyMsg.Answer[Len(replyMsg.Answer)].Data.Serial = hCalls[1].serial

\* The last request was an AXFR, to a server with SOA authority, of a zone
\* of the container whose nodes are the apex, concrete nodes and the
\* wildcard.
FullTransfer ==
    /\ OneQuestion
    /\ TheQuestion.Qtype = TypeAXFR
    /\ authority(soa)
    /\ FindZone(AskedName) # 0
    /\ {Apex, Wildcard} \subseteq DOMAIN Nodes[FindZone(AskedName)]
    /\ DOMAIN Nodes[FindZone(AskedName)] \ {Apex, Wildcard} # {}

\* The records of node n of the zone asked for, as resource records under
\* the owner name of n.
RRsOf(n) ==
    LET rs == Nodes[FindZone(AskedName)][n]
        owner == IF n = Apex THEN TheQuestion.Name
                 ELSE n \o <<".">> \o TheQuestion.Name
    IN  [i \in 1..Len(rs) |->
            [Name |-> owner, Rrtype |-> rs[i].type, Ttl |-> rs[i].ttl, Data |-> rs[i].value]]

RECURSIVE RRsOfAll(_)
RRsOfAll(ns) == IF ns = <<>> THEN <<>> ELSE RRsOf(Head(ns)) \o RRsOfAll(Tail(ns))

\* The records of the zone asked for in the order of a transfer: the
\* apex's, the concrete nodes' in some order, the wildcard's.
ZoneRRs ==
    {RRsOf(Apex) \o RRsOfAll(o) \o RRsOf(Wildcard) :
        o \in Orderings(DOMAIN Nodes[FindZone(AskedName)] \ {Apex, Wildcard})}

\* C20 as stated: the answer list of such an AXFR is the SOA, the apex's
\* records, the concrete nodes' records, the wildcard's records and the
\* SOA, in this order and nothing else, and the reply is authoritative.
C20_TransferAnswerAsStated ==
    FullTransfer =>
        LET n == Len(replyMsg.Answer)
        IN  /\ replyMsg.Authoritative
            /\ n >= 2
            /\ replyMsg.Answer[1].Rrtype = TypeSOA
            /\ replyMsg.Answer[n].Rrtype = TypeSOA
            /\ SubSeq(replyMsg.Answer, 2, n - 1) \in ZoneRRs

\* C20 amended: the answer list of such an AXFR is the SOA, the NS record
\* of the configured primary name server, the apex's records, the concrete
\* nodes' records, the wildcard's records and the SOA, in this order and
\* nothing else, and the reply is authoritative.
C20_TransferAnswer ==
    FullTransfer =>
        LET n == Len(replyMsg.Answer)
        IN  /\ replyMsg.Authoritative
            /\ n >= 3
            /\ replyMsg.Answer[1].Rrtype = TypeSOA
            /\ replyMsg.Answer[1].Name = TheQuestion.Name
            /\ replyMsg.Answer[2] = [Name |-> TheQuestion.Name, Rrtype |-> TypeNS,
                                     Ttl |-> soa.TTL, Data |-> soa.NS]
            /\ replyMsg.Answer[n] = replyMsg.Answer[1]
            /\ SubSeq(replyMsg.Answer, 3, n - 1) \in ZoneRRs

\* Zone "a." with the apex, node "w" with three records and the wildcard
\* was transferred by AXFR: eight answers.
C20_Witness ==
    /\ FullTransfer
    /\ DOMAIN Nodes[1] = {Apex, NodeW, Wildcard}
    /\ Len(Nodes[1][NodeW]) = 3
    /\ Len(replyMsg.Answer) = 8

\* --------------------------------------- properties of the transfer requests

\* The last request was one question of class IN asking for a transfer.
TransferQuery == OneQuestion /\ transferReq(TheQuestion)

\* C21: a transfer question, AXFR or IXFR alike, is passed to TransferZone
\* only when SOA authority is configured, and no other question is. Without
\* authority the resolver is not called and the reply is NXDOMAIN with
\* empty answer and authority sections; with authority the transfer of a
\* name that is no zone is answered NXDOMAIN with empty answer section and
\* an SOA of serial 1 in authority.
C21_TransferNeedsAuthority ==
    /\ (OneQuestion /\ ~transferReq(TheQuestion)) => TransferCalls = {}
    /\ (TransferQuery /\ ~authority(soa)) =>
            /\ hCalls = <<>>
            /\ replyMsg.Rcode = RcodeNameError
            /\ replyMsg.Answer = <<>>
            /\ replyMsg.Ns = <<>>
    /\ (TransferQuery /\ authority(soa)) =>
            /\ Len(hCalls) = 1
            /\ hCalls[1].op = "TransferZone"
            /\ hCalls[1].name = AskedName
            /\ FindZone(AskedName) = 0 =>
                    /\ replyMsg.Rcode = RcodeNameError
                    /\ replyMsg.Answer = <<>>
                    /\ Len(replyMsg.Ns) = 1
                    /\ replyMsg.Ns[1].Rrtype = TypeSOA
                    /\ replyMsg.Ns[1].Data.Serial = One32

\* A server without SOA authority was asked for the AXFR of zone "a.",
\* which has nodes, and answered NXDOMAIN.
C21_Witness ==
    /\ TransferQuery
    /\ TheQuestion.Qtype = TypeAXFR
    /\ ~authority(soa)
    /\ AskedName = ZoneDomains[1]
    /\ DOMAIN Nodes[1] # {}
    /\ replyMsg.Rcode = RcodeNameError

\* ------------------------------------------ properties of the node records

\* The nodes the resolver returned to the last request.
ReturnedNodes ==
    IF hCalls = <<>> THEN <<>>
    ELSE IF hCalls[1].op = "TransferZone" THEN hCalls[1].nodes
    ELSE IF hCalls[1].op = "ResolveResource" /\ hCalls[1].node # Nil
         THEN <<[name |-> hCalls[1].node, records |-> hCalls[1].records]>>
    ELSE <<>>

\* The question admits records of this type.
Admits(type) == TheQuestion.Qtype \in {TypeAXFR, TypeIXFR, TypeANY, type}

\* The owner name C22 gives to the records of node n.
StatedOwner(n) ==
    IF n = Apex THEN TheQuestion.Name
    ELSE IF n = Wildcard THEN <<"*", ".">> \o TheQuestion.Name
    ELSE IF transferReq(TheQuestion) THEN n \o <<".">> \o TheQuestion.Name
    ELSE TheQuestion.Name

\* The admitted records of one node under its stated owner name, and of a
\* list of nodes.
OwnedRRs(node) ==
    LET rs == SelectSeq(node.records, LAMBDA r : Admits(r.type))
    IN  [i \in 1..Len(rs) |->
            [Name |-> StatedOwner(node.name), Rrtype |-> rs[i].type, Ttl |-> rs[i].ttl,
             Data |-> rs[i].value]]

RECURSIVE OwnedRRsAll(_)
OwnedRRsAll(nodes) ==
    IF nodes = <<>> THEN <<>> ELSE OwnedRRs(Head(nodes)) \o OwnedRRsAll(Tail(nodes))

\* The records made from the SOA configuration that precede and follow
\* the node records in the answer section.
HeadCount ==
    IF authority(soa) /\ (transferReq(TheQuestion) \/ ReturnedNodes[1].name = Apex)
    THEN (IF Admits(TypeSOA) THEN 1 ELSE 0) + (IF Admits(TypeNS) THEN 1 ELSE 0)
    ELSE 0

TailCount == IF transferReq(TheQuestion) THEN 1 ELSE 0

\* The node records of the last reply's answer section.
NodeRecords ==
    SubSeq(replyMsg.Answer, HeadCount + 1, Len(replyMsg.Answer) - TailCount)

\* C22: the records of a node in a reply are owned by the question name
\* for the apex, by "*." + question name for the wildcard, by node + "." +
\* question name for a concrete node of a transfer and by the question
\* name for a concrete node of another query.
C22_OwnerNames ==
    (OneQuestion /\ replyMsg.Rcode = RcodeSuccess) =>
        NodeRecords = OwnedRRsAll(ReturnedNodes)

\* A transfer of zone "a." answered with records owned by "w.a." and by
\* "*.a.".
C22_Witness ==
    /\ TransferQuery
    /\ replyMsg.Rcode = RcodeSuccess
    /\ \E i, j \in 1..Len(replyMsg.Answer) :
        /\ replyMsg.Answer[i].Name = HostW
        /\ replyMsg.Answer[j].Name = <<"*", ".", "a", ".">>
        /\ replyMsg.Answer[j].Rrtype = TypeA

\* ------------------------------------------- properties of the type filter

\* The number of records of a list of nodes.
RECURSIVE CountRecords(_)
CountRecords(nodes) ==
    IF nodes = <<>> THEN 0 ELSE Len(Head(nodes).records) + CountRecords(Tail(nodes))

\* The node records of the answer section are the records of the returned
\* nodes that have the type asked for, or all of them when AXFR, IXFR or
\* ANY is asked for.
FilteredByType ==
    (OneQuestion /\ replyMsg.Rcode = RcodeSuccess) =>
        /\ \A i \in 1..Len(NodeRecords) :
                \/ NodeRecords[i].Rrtype = TheQuestion.Qtype
                \/ TheQuestion.Qtype \in {TypeAXFR, TypeIXFR, TypeANY}
        /\ [i \in 1..Len(NodeRecords) |-> NodeRecords[i].Rrtype]
                = [i \in 1..Len(OwnedRRsAll(ReturnedNodes)) |->
                        OwnedRRsAll(ReturnedNodes)[i].Rrtype]
        /\ TheQuestion.Qtype \in {TypeAXFR, TypeIXFR, TypeANY} =>
                Len(NodeRecords) = CountRecords(ReturnedNodes)

\* The last request asked a known node, one that has records, for a type
\* that none of its records has.
NoDataQuery ==
    /\ OneQuestion
    /\ TheQuestion.Qtype \notin {TypeAXFR, TypeIXFR, TypeANY}
    /\ Len(hCalls) = 1
    /\ hCalls[1].op = "ResolveResource"
    /\ hCalls[1].node # Nil
    /\ hCalls[1].records # <<>>
    /\ \A i \in 1..Len(hCalls[1].records) : hCalls[1].records[i].type # TheQuestion.Qtype

\* C23 as stated: the answer section holds a node's record only if it has
\* the type asked for or AXFR, IXFR or ANY is asked for, when it holds all
\* of them; a query for a type that no record of a known node has is
\* answered NOERROR with an empty answer section and, with SOA authority,
\* an SOA in authority.
C23_TypeFilterAsStated ==
    /\ FilteredByType
    /\ NoDataQuery =>
            /\ replyMsg.Rcode = RcodeSuccess
            /\ replyMsg.Answer = <<>>
            /\ authority(soa) => SOAInAuthority

\* C23 amended: as stated, except that the answer to a query for a type
\* that no record of a known node has holds no node record: it is empty,
\* or, when the node is the apex, the server has SOA authority and SOA or
\* NS is asked for, it is the one record of that type made from the SOA
\* configuration; the SOA is in authority when the answer section is empty.
C23_TypeFilter ==
    /\ FilteredByType
    /\ NoDataQuery =>
            /\ replyMsg.Rcode = RcodeSuccess
            /\ NodeRecords = <<>>
            /\ \/ replyMsg.Answer = <<>>
               \/ /\ authority(soa)
                  /\ hCalls[1].node = Apex
                  /\ TheQuestion.Qtype \in {TypeSOA, TypeNS}
                  /\ Len(replyMsg.Answer) = 1
                  /\ replyMsg.Answer[1].Rrtype = TheQuestion.Qtype
                  /\ FromSOAConfig(replyMsg.Answer[1])
            /\ (authority(soa) /\ replyMsg.Answer = <<>>) => SOAInAuthority

\* An authoritative server was asked for AAAA/"w.a." while node "w" had
\* two or more records, none of them AAAA: NOERROR and no answer.
C23_Witness ==
    /\ NoDataQuery
    /\ TheQuestion = Question(HostW, TypeAAAA, ClassINET)
    /\ NodeW \in DOMAIN Nodes[1]
    /\ Len(Nodes[1][NodeW]) >= 2
    /\ authority(soa)
    /\ replyMsg.Rcode = RcodeSuccess
    /\ replyMsg.Answer = <<>>

\* ------------------------------------------------ properties of the handler

\* handle has returned from a call.
HandleReturned == hpc = "idle" /\ questMsg.handled

\* C24: on every path through handle, a panic of the resolver or of the
\* answer building included, one reply is written and then the writer is
\* closed: never a second write, never a write after the close, and both
\* done when handle returns; a reply written by a handle that panicked has
\* rcode SERVFAIL, and no panic leaves handle.
C24_WriteThenClose ==
    /\ Len(wlog) <= 2
    /\ Len(wlog) >= 1 => wlog[1].op = "WriteMsg"
    /\ Len(wlog) = 2 => wlog[2].op = "Close"
    /\ HandleReturned => Len(wlog) = 2
    /\ (hpanicked /\ Len(wlog) >= 1) => replyMsg.Rcode = RcodeServerFailure
    /\ HandleReturned => ~hpanic
    /\ ~escaped

\* handle has returned after a panic that struck while it was building an
\* answer section of which one record had been appended; the reply was
\* written, with that record, and the writer closed.
C24_Witness ==
    /\ HandleReturned
    /\ hpanicked
    /\ hCalls # <<>>
    /\ Len(wlog) = 2
    /\ Len(replyMsg.Answer) = 1
    /\ replyMsg.Rcode = RcodeServerFailure

\* ---------------------------------------------------- properties of Serve

\* Serve has returned.
ServeReturned == spc = "returned"

\* Some listener is enabled in the Config of the call.
SomeListener == spc # "idle" /\ (~scfg.NoTCP \/ ~scfg.NoUDP)

\* C25: Serve never returns a listener's socket-closed error, and while no
\* bind and no listener has failed it returns, the SOA error aside, only
\* the context's error, and that only when the context given to it is
\* cancelled; once that context is cancelled and a listener is enabled,
\* Serve returns; and after Serve has returned, for whatever reason, every
\* socket that was opened is closed in the end.
C25_CancelAndClose ==
    /\ [](sret # "closed")
    /\ []((ServeReturned /\ ~unhealthy /\ sret # "soa") => (sret = "ctx" /\ parentDone))
    /\ (parentDone /\ SomeListener) ~> ServeReturned
    /\ ServeReturned ~> (\A l \in Listeners : sock[l] # "open")

\* Serve has returned the context's error with both listeners bound and
\* neither failed, both sockets are closed, and the socket-closed errors of
\* both listeners are left in the channel.
C25_Witness ==
    /\ ServeReturned
    /\ sret = "ctx"
    /\ ~unhealthy
    /\ \A l \in Listeners : sock[l] = "closed" /\ lserve[l] = "done"
    /\ Len(errors) = 3

\* The Config of the call asks for listener l.
Wanted(l) == IF l = "tcp" THEN ~scfg.NoTCP ELSE ~scfg.NoUDP

\* C26: the Ready channel is closed at most once, only when the socket of
\* every listener the Config asks for has been bound, and it has been
\* closed, if provided, when Serve waits for an error; when Serve returns
\* the SOA error or a bind error Ready is not and will not be closed, and
\* with the SOA error no socket was bound.
C26_ReadyAfterBinds ==
    /\ readyClosed <= 1
    /\ readyClosed = 1 => \A l \in Listeners : Wanted(l) => sock[l] # "none"
    /\ (spc = "wait" /\ scfg.Ready) => readyClosed = 1
    /\ sret \in {"soa", "bind"} => (ServeReturned /\ readyClosed = 0)
    /\ sret = "soa" => \A l \in Listeners : sock[l] = "none"
    /\ ServeReturned => (readyClosed = 1 <=> (scfg.Ready /\ sret \notin {"soa", "bind"}))

\* Serve has bound both sockets, closed Ready and waits for an error.
C26_Witness ==
    /\ spc = "wait"
    /\ readyClosed = 1
    /\ \A l \in Listeners : sock[l] = "open"

\* ---------------------------------------------------- properties of Verify

\* The calls of one kind made so far, and Verify has returned.
Calls(op) == {i \in 1..Len(alog) : alog[i].op = op}

VerifyReturned == apc = "done"

\* C27: when the authorization is valid Verify returns nil, when it is
\* invalid the invalid-authorization error, when Authorize fails its
\* error; in these cases the only call made is Authorize: nothing is
\* written to the DNS, nothing accepted or waited for.
C27_SettledAuthorization ==
    (apc # "idle" /\ (~alog[1].ok \/ authz.Status \in {"valid", "invalid"})) =>
        /\ VerifyReturned
        /\ Len(alog) = 1
        /\ alog[1].op = "Authorize"
        /\ aret = IF ~alog[1].ok THEN "Authorize"
                  ELSE IF authz.Status = "valid" THEN "" ELSE ErrInvalid

\* Verify has returned the invalid-authorization error for an invalid
\* authorization that offered a dns-01 challenge.
C27_Witness ==
    /\ VerifyReturned
    /\ authz.Status = "invalid"
    /\ authz.Challenges = <<challengeType>>
    /\ aret = ErrInvalid

\* Verify went on to acquireAuthorization: Authorize succeeded and the
\* authorization is neither valid nor invalid.
Acquiring == apc # "idle" /\ alog[1].ok /\ StatusCase(authz.Status) = "default"

\* The operations called so far, in order.
OpsLog == [i \in 1..Len(alog) |-> alog[i].op]

\* The calls of one kind that succeeded.
Succeeded(op) == {i \in Calls(op) : alog[i].ok}

\* The authorization offers one combination, of its first challenge alone,
\* and that challenge is of type dns-01.
OneDNS01Combination ==
    /\ Acquiring
    /\ combos = << <<0>> >>
    /\ Len(authz.Challenges) >= 1
    /\ authz.Challenges[1] = challengeType

FullFlow ==
    <<"Authorize", "DNS01ChallengeRecord", "ModifyTXTRecord", "Accept",
      "WaitAuthorization", "ForgetTXTRecord">>

\* C28 as stated: with one single-challenge dns-01 combination Verify makes
\* exactly one install of the _acme-challenge record with TTL 1, one
\* Accept, one WaitAuthorization and one cleanup, in this order, whatever
\* the outcome.
C28_FlowAsStated ==
    (OneDNS01Combination /\ VerifyReturned) =>
        /\ OpsLog = FullFlow
        /\ alog[3].node = challengeNode /\ alog[3].ttl = 1
        /\ alog[6].node = challengeNode

\* C28: with one single-challenge dns-01 combination Verify makes the
\* calls install, Accept, WaitAuthorization, cleanup in this order, each at
\* most once and each only if the one before it succeeded, except the
\* cleanup, which is made exactly once, last, if and only if the install
\* succeeded; so when the install and Accept succeed there is exactly one
\* of each of the four, whatever WaitAuthorization returns.  The install
\* and the cleanup are of the _acme-challenge record, the install with
\* TTL 1.
C28_Flow ==
    (OneDNS01Combination /\ VerifyReturned) =>
        /\ OpsLog = IF Succeeded("DNS01ChallengeRecord") = {} THEN SubSeq(FullFlow, 1, 2)
                    ELSE IF Succeeded("ModifyTXTRecord") = {} THEN SubSeq(FullFlow, 1, 3)
                    ELSE IF Succeeded("Accept") = {}
                         THEN SubSeq(FullFlow, 1, 4) \o <<"ForgetTXTRecord">>
                    ELSE FullFlow
        /\ \A i \in Calls("ModifyTXTRecord") :
            alog[i].node = challengeNode /\ alog[i].ttl = 1 /\ alog[i].chal = 1
        /\ \A i \in Calls("ForgetTXTRecord") : alog[i].node = challengeNode
        /\ aret = IF Succeeded("DNS01ChallengeRecord") = {} THEN "DNS01ChallengeRecord"
                  ELSE IF Succeeded("ModifyTXTRecord") = {} THEN "ModifyTXTRecord"
                  ELSE IF Succeeded("Accept") = {} THEN "Accept"
                  ELSE IF Succeeded("WaitAuthorization") = {} THEN "WaitAuthorization"
                  ELSE ""

\* Verify has returned the error of WaitAuthorization after the whole
\* flow, the cleanup included.
C28_Witness ==
    /\ OneDNS01Combination
    /\ VerifyReturned
    /\ OpsLog = FullFlow
    /\ aret = "WaitAuthorization"

\* The combinations the loop takes up, by their place in combos, and the
\* challenge each one names.
Attempted == {k \in 1..Len(combos) : SingleCombo(combos[k], authz.Challenges)}

ChallengeOf(k) == combos[k][1] + 1

\* C29: if the only challenge of a pending authorization is not of type
\* dns-01, Verify fails without a call of DNS01ChallengeRecord,
\* ModifyTXTRecord, Accept, WaitAuthorization or ForgetTXTRecord, with the
\* unsupported-challenge-types error whenever a combination offers the
\* challenge alone; and for every authorization each ModifyTXTRecord call
\* is for a challenge of type dns-01 that a combination of length 1 names.
C29_OnlyDNS01 ==
    /\ (Acquiring /\ VerifyReturned /\ Len(authz.Challenges) = 1
            /\ authz.Challenges[1] # challengeType) =>
        /\ OpsLog = <<"Authorize">>
        /\ aret \in {ErrUnsupported, ErrNoCombinations}
        /\ (\E k \in 1..Len(combos) : combos[k] = <<0>>) => aret = ErrUnsupported
    /\ \A i \in Calls("ModifyTXTRecord") :
        /\ authz.Challenges[alog[i].chal] = challengeType
        /\ \E k \in 1..Len(combos) : combos[k] = <<alog[i].chal - 1>>
        /\ alog[i].node = challengeNode
        /\ alog[i].ttl = challengeTTL

\* Verify has returned the unsupported-challenge-types error for a pending
\* authorization whose only challenge is http-01.
C29_Witness ==
    /\ Acquiring
    /\ VerifyReturned
    /\ authz.Challenges = <<"http-01">>
    /\ authz.Combinations = <<>>
    /\ aret = ErrUnsupported

\* The error of the last combination taken up, none of which was accepted:
\* that of fulfillChallenge for a challenge of another type, else that of
\* the last call of its attempt, which failed.
LastAttempted == CHOOSE k \in Attempted : \A j \in Attempted : j <= k

FailedCalls ==
    {i \in 1..Len(alog) :
        alog[i].op \in {"DNS01ChallengeRecord", "ModifyTXTRecord", "Accept"} /\ ~alog[i].ok}

LastError ==
    IF authz.Challenges[ChallengeOf(LastAttempted)] # challengeType
    THEN ErrUnsupported
    ELSE alog[CHOOSE i \in FailedCalls : \A j \in FailedCalls : j <= i].op

\* C30: when no Accept succeeded, Verify returns an error and
\* WaitAuthorization is never called: the error of the last combination
\* taken up if there was one, otherwise the no-supported-combinations
\* error, as when no combination has length 1 or Combinations is empty and
\* the challenges are not exactly one.  At most one Accept succeeds, and
\* after it no further challenge is tried.
C30_NoneAccepted ==
    /\ (Acquiring /\ Succeeded("Accept") = {}) =>
        /\ Calls("WaitAuthorization") = {}
        /\ VerifyReturned =>
            /\ aret # ""
            /\ aret = IF Attempted = {} THEN ErrNoCombinations ELSE LastError
            /\ (\A k \in 1..Len(combos) : Len(combos[k]) # 1) => aret = ErrNoCombinations
            /\ (authz.Combinations = <<>> /\ Len(authz.Challenges) # 1) =>
                aret = ErrNoCombinations
    /\ Cardinality(Succeeded("Accept")) <= 1
    /\ \A i \in Succeeded("Accept") : \A j \in (i + 1)..Len(alog) :
        alog[j].op \in {"WaitAuthorization", "ForgetTXTRecord"}

\* Verify has returned the error of the second combination, a challenge of
\* another type, after Accept failed for the first.
C30_Witness ==
    /\ Acquiring
    /\ VerifyReturned
    /\ Len(combos) = 2
    /\ Cardinality(Calls("Accept")) = 1
    /\ Succeeded("Accept") = {}
    /\ Calls("ForgetTXTRecord") # {}
    /\ aret = ErrUnsupported

\* ------------------------------------------- properties of the window state

\* The applyChanges callbacks that are scheduled and have not run to the end.
PendingCallbacks == timers + applyWait + applyIn

\* C35: while the lock is free, changeReady is non-nil exactly when one
\* applyChanges callback is scheduled and has not run; then changeZones is
\* non-nil and holds the zones that ModifyRecord calls targeted since the
\* window opened, and the channel is open; otherwise both are nil and no
\* callback is pending.  At no time is more than one callback pending, a
\* writer that waits on an open channel waits on changeReady, and no
\* close of a nil or closed channel (a panic) happens.
C35_WindowState ==
    /\ ~panicked
    /\ PendingCallbacks <= 1
    /\ ~mutexW =>
        /\ changeReady # 0 <=> PendingCallbacks = 1
        /\ changeReady # 0 =>
            /\ ~changeZones.nil
            /\ changeZones.set = hTouched
            /\ changeZones.set # {}
            /\ changeReady \notin closed
        /\ changeReady = 0 => (changeZones = NilMap /\ PendingCallbacks = 0 /\ hTouched = {})
    /\ \A w \in Writers : wpc[w] = "select" =>
        /\ wready[w] # 0
        /\ wready[w] \notin closed => wready[w] = changeReady

\* Two writers wait on the signal of one window that holds both zones,
\* and its one timer has not expired.
C35_Witness ==
    /\ ~mutexW
    /\ timers = 1
    /\ changeZones.set = ZoneIds
    /\ \A w \in Writers : wpc[w] = "select" /\ wready[w] = changeReady

\* ------------------------------------------- properties of Zone.modifyRecord

\* The records of rs of type t, and those of the other types, in order.
OfType(rs, t) == SelectSeq(rs, LAMBDA x : x.type = t)

OtherTypes(rs, t) == SelectSeq(rs, LAMBDA x : x.type # t)

\* What modifyRecord(node, r) is to do to a node map: the other nodes stay
\* as they are, and so do the node's records of other types; a non-empty r
\* becomes the node's only record of its type; an empty r leaves none of
\* its type, and the node is in the map afterwards exactly when records
\* of other types are left.
Modified(before, after, node, r) ==
    /\ \A n \in (DOMAIN before \cup DOMAIN after) \ {node} : Get(after, n) = Get(before, n)
    /\ DOMAIN after \ {node} = DOMAIN before \ {node}
    /\ OtherTypes(Get(after, node), r.type) = OtherTypes(Get(before, node), r.type)
    /\ IF ~Empty(r)
       THEN /\ node \in DOMAIN after
            /\ OfType(after[node], r.type) = <<r>>
       ELSE /\ OfType(Get(after, node), r.type) = <<>>
            /\ node \in DOMAIN after <=> OtherTypes(Get(before, node), r.type) # <<>>
            /\ OfType(Get(before, node), r.type) = <<>> => after = before

\* C33: every modifyRecord(node, r) does to the zone what Modified says,
\* for a non-empty and for an empty r, on a node that exists and on one
\* that does not; and no node of the map has an empty record set.
C33_ModifyRecord ==
    /\ [](\A n \in DOMAIN Nodes[1] : Nodes[1][n] # <<>>)
    /\ [][\A a \in ZoneModifyInputs :
            Nodes'[1] = modifyRecord(Nodes[1], a.node, a.r) =>
                Modified(Nodes[1], Nodes'[1], a.node, a.r)]_vars

\* The apex, whose only record was removed, is gone from the map, and
\* node "w" holds its A record and the TXT record that replaced another.
C33_Witness ==
    /\ Apex \notin DOMAIN Nodes[1]
    /\ NodeW \in DOMAIN Nodes[1]
    /\ Nodes[1][NodeW] = <<RecA, TXT(<<"y">>)>>
    /\ NodeV \in DOMAIN Nodes[1]

\* ------------------------------------------- properties of matchResource

\* The prefixes of name before "." and the domain that hold no dot.
NodePrefixes(domain, name) ==
    {k \in 0..Len(name) :
        /\ SubSeq(name, 1, k) \o <<".">> \o domain = name
        /\ \A i \in 1..k : name[i] # "."}

\* C34: matchResource(name) returns the apex and true when name is the
\* zone's domain; otherwise, when name is a prefix without a dot, a dot
\* and the domain, that prefix and true; in every other case false.
C34_MatchResource ==
    matched.called =>
        IF matched.name = matched.domain
        THEN matched.ok /\ matched.node = Apex
        ELSE IF NodePrefixes(matched.domain, matched.name) # {}
        THEN /\ matched.ok
             /\ \A k \in NodePrefixes(matched.domain, matched.name) :
                    matched.node = SubSeq(matched.name, 1, k)
        ELSE ~matched.ok

\* matchResource has declined a name two labels below the zone "a.".
C34_Witness ==
    /\ matched.called
    /\ matched.domain = ZoneDomains[1]
    /\ matched.name = <<"a", ".", "b", ".", "a", ".">>
    /\ ~matched.ok

\* ------------------------------------------- properties of the first serial

\* The value unix(t) - 1500000000 of the time Init read, for the times at
\* which it fits an integer, and the serial the zones have, likewise.
Elapsed == clock.skew

SerialOfZones(n) == \A z \in ZoneIds : serial[z] = Wide(n)

\* C32 as stated: the zones start with the serial max(1, unix(t) -
\* 1500000000), and Init panics when the value is outside 1..2^32-1.
C32_TimeSerialAsStated ==
    clock.called =>
        IF clock.base = "epoch"
        THEN ~panicked /\ SerialOfZones(IF Elapsed < 1 THEN 1 ELSE Elapsed)
        ELSE IF Elapsed < 0
        THEN ~panicked /\ \A z \in ZoneIds : serial[z] = <<Half - 1, Half + Elapsed>>
        ELSE panicked /\ \A z \in ZoneIds : serial[z] = serial0

\* C32: the zones start with the serial unix(t) - 1500000000 when it is
\* in 1..2^32-1, all with the same; for any other value, zero and the
\* negative ones included, Init panics and no serial is stored: the value
\* is neither raised to 1 nor cut to 32 bits.
C32_TimeSerial ==
    clock.called =>
        IF clock.base = "epoch"
        THEN IF Elapsed >= 1
             THEN ~panicked /\ SerialOfZones(Elapsed)
             ELSE panicked /\ \A z \in ZoneIds : serial[z] = serial0
        ELSE IF Elapsed < 0
        THEN ~panicked /\ \A z \in ZoneIds : serial[z] = <<Half - 1, Half + Elapsed>>
        ELSE panicked /\ \A z \in ZoneIds : serial[z] = serial0

\* Init has read the clock one second before the serial would need 33
\* bits: the zones start with serial 2^32 - 1.
C32_Witness ==
    /\ clock.called
    /\ clock.base = "wrap"
    /\ clock.skew = -1
    /\ ~panicked
    /\ \A z \in ZoneIds : serial[z] = MaxUint32

\* ----------------------------------------- properties of the names served

\* The domains of the zones.
Domains == {ZoneDomains[z] : z \in ZoneIds}

\* C38: ResolveResource reports the apex node only for a name that is the
\* domain of a zone, and only for such a name does the reply to a query
\* other than a transfer carry the SOA and NS records made from the
\* server's SOA configuration.
C38_ApexOnlyForDomain ==
    /\ \A i \in 1..Len(hCalls) :
        (hCalls[i].op = "ResolveResource" /\ hCalls[i].node = Apex) =>
            hCalls[i].name \in Domains
    /\ (OneQuestion /\ ~transferReq(TheQuestion)) =>
        \A i \in 1..Len(replyMsg.Answer) :
            FromSOAConfig(replyMsg.Answer[i]) => AskedName \in Domains

\* C39: in the reply to a query other than a transfer that is answered
\* with records, every record of the answer section is owned by the name
\* asked for.
C39_OwnerIsQuestionName ==
    (OneQuestion /\ ~transferReq(TheQuestion) /\ replyMsg.Rcode = RcodeSuccess) =>
        \A i \in 1..Len(replyMsg.Answer) : replyMsg.Answer[i].Name = TheQuestion.Name

\* C40: for the same name and the same zones ResolveZone succeeds exactly
\* when ResolveResource returns records, and then the domain it returns
\* is that of the zone whose records and serial ResolveResource returns.
C40_SameZone ==
    (Len(hCalls) = 2 /\ hCalls[1].op = "ResolveZone" /\ hCalls[2].op = "ResolveResource") =>
        /\ hCalls[1].err = "" <=> hCalls[2].records # Nil
        /\ hCalls[1].err = "" =>
            /\ hCalls[1].zone = hCalls[2].zone
            /\ hCalls[1].domain = ZoneDomains[hCalls[2].zone]

\* ------------------------------------------------- the host policy

\* The name is a defined node, or covered by a wildcard, of a known zone:
\* host+"." is the domain of a zone that has an apex, or one label before
\* the domain of a zone that has that label or a wildcard.
Covered(host) ==
    \E z \in ZoneIds :
        LET d == ZoneDomains[z]
            n == host \o <<".">>
            k == Len(n) - Len(d) - 1
        IN  \/ n = d /\ Apex \in DOMAIN Nodes[z]
            \/ /\ k >= 1
               /\ SubSeq(n, k + 1, Len(n)) = <<".">> \o d
               /\ \A i \in 1..k : n[i] # "."
               /\ (SubSeq(n, 1, k) \in DOMAIN Nodes[z] \/ Wildcard \in DOMAIN Nodes[z])

\* The manager has not gone beyond the policy: no ACME call, no write.
NothingRequested ==
    /\ mgr.pc = "done"
    /\ apc = "idle"
    /\ alog = <<>>
    /\ calls = 0

C37_VerifyNeedsZone ==
    /\ apc # "idle" => mgr.err = "" /\ mgr.zone \in Domains
    /\ mgr.err \notin {"none", ""} =>
            /\ alog = <<>>
            /\ wpc[1] = "idle" /\ wret[1] = "none"
            /\ mgr.pc = "done" => mgr.ret # ""

\* The challenge records the zones hold.
ChallengeRecords == {z \in ZoneIds : ChallengeNodeName \in DOMAIN Nodes[z]}

\* C36: when the driver returns after a ModifyTXTRecord install modified
\* the zone, ForgetTXTRecord was called after the install and after the
\* last Accept and WaitAuthorization, and no challenge record is left.
C36_CleanupOnEveryPath ==
    apc = "done" =>
        /\ ChallengeRecords = {}
        /\ \A i \in 1..Len(alog) :
              alog[i].op = "ModifyTXTRecord" /\ mgr.zone \in Domains =>
                  \E j \in (i + 1)..Len(alog) :
                      /\ alog[j].op = "ForgetTXTRecord"
                      /\ \A k \in 1..Len(alog) :
                            alog[k].op \in {"Accept", "WaitAuthorization"} => k < j

====
